---- MODULE Spec2Model ----
(***************************************************************************)
(* Pipeline orchestrator of inquiry-os                                     *)
(* (apps/api/app/services/pipeline_orchestrator.py).                       *)
(*                                                                         *)
(* One research run and its rows in research_steps, sources and            *)
(* pipeline_events.  The stage entry points are operators over the         *)
(* committed rows of the run; execute is followed commit by commit.        *)
(* Calls are serialized: a stage entry point or a new execute starts only  *)
(* when no execute is in progress.                                         *)
(***************************************************************************)
EXTENDS Integers, Sequences, FiniteSets, TLC

\* ---------------------------------------------------------------- bounds
\* execute invocations on an existing run
MaxExec == 2
\* milliseconds the clock may advance in total
MaxClock == 2
\* result anchors the search provider's page may hold
MaxResults == 2

\* ------------------------------------------------------ program constants
\* execute_pipeline: run_web_search(run_id, limit=5)
SearchLimit == 5
\* execute_pipeline: run_web_reader(run_id, limit=5)
ReaderLimit == 5

NULL == "null"

VARIABLES
    run,        \* the research_runs row: exists, status, error_message
    steps,      \* research_steps rows of the run, in commit order
    sources,    \* sources rows of the run, in insertion order
    events,     \* pipeline_events rows of the run, in insertion order
    clock,      \* datetime.now(timezone.utc), in ms
    call,       \* the execute invocation in progress (or the last one)
    last,       \* outcome of the last finished invocation
    pre,        \* the committed rows when the last invocation started
    faults,     \* collaborator failures so far, where they are limited
    reader,     \* one run_web_reader call, task by task
    sessions,   \* stage calls in progress, each with its own session
    synthesis,  \* one completion as run_llm_synthesis turns it into an output
    fetcher,    \* one Source on its way through a reader, request by request
    view,       \* the rows get_run_state is asked about, and its answer
    stamps,     \* started_at and completed_at of the rows of research_steps
    executes    \* execute invocations in progress, each with its own session

vars == <<run, steps, sources, events, clock, call, last, pre, faults,
          reader, sessions, synthesis, fetcher, view, stamps, executes>>

\* the parts of the state that only the detailed specifications change
detail == <<reader, sessions, synthesis, fetcher, view, stamps, executes>>

\* the parts of the state that only the boundary specifications change
boundary == <<fetcher, view, stamps, executes>>

\* ------------------------------------------------------------ enum values
ResearchStepType == <<"planner", "searcher", "reader", "synthesizer">>

PENDING == "pending"
RUNNING == "running"
COMPLETED == "completed"
FAILED == "failed"

Modes == {"dummy", "real"}

\* ResearchStep.status column default
ResearchStep_status_default == PENDING

\* ResearchRun.status column default
ResearchRun_status_default == PENDING

\* ---------------------------------------------------------------- helpers
Min(a, b) == IF a < b THEN a ELSE b

SetMax(S) == CHOOSE x \in S : \A y \in S : y <= x

\* the rows of the run as one value (what a session reads and commits)
DB == [run |-> run, steps |-> steps, sources |-> sources]

Raise(kind, msg, db) == [result |-> kind, message |-> msg, db |-> db]

Return(db) == [result |-> "ok", message |-> NULL, db |-> db]

ResearchStep(index, type, status) ==
    [step_index |-> index, step_type |-> type, status |-> status]

Source(url, summary) == [url |-> url, raw_content |-> NULL, summary |-> summary]

\* the href of the i-th result anchor of a search page
Href(i) == "href_" \o ToString(i)

PipelineEvent(type, mode, stage, duration, msg) ==
    [event_type |-> type, mode |-> mode, stage |-> stage,
     duration_ms |-> duration, error_message |-> msg]

\* ------------------------------------------------- orchestrator's helpers
_has_step_type(db, step_type) ==
    \E i \in DOMAIN db.steps : db.steps[i].step_type = step_type

\* mutant: running whenever the run is not completed yet
_set_status_running_unless_completed(r) ==
    IF r.status # COMPLETED THEN [r EXCEPT !.status = RUNNING] ELSE r

\* mutant: the status is left pending
_set_status_running_if_pending_skipped(r) == r

_set_status_running_if_pending(r) ==
    IF r.status = PENDING THEN [r EXCEPT !.status = RUNNING] ELSE r

\* mutant: the status is left as it is
_set_status_completed_skipped(r) == r

_set_status_completed(r) == [r EXCEPT !.status = COMPLETED]

\* mutant: the next index without the increment
_next_step_index_stale(db) ==
    IF db.steps = <<>> THEN 0
    ELSE SetMax({db.steps[i].step_index : i \in DOMAIN db.steps})

_next_step_index(db) ==
    IF db.steps = <<>> THEN 0
    ELSE SetMax({db.steps[i].step_index : i \in DOMAIN db.steps}) + 1

\* ------------------------------------------------------------ the stages
NotFound(db) == Raise("NotFound", "Research run not found", db)

InvalidState(msg, db) == Raise("InvalidState", msg, db)

\* mutant: two dummy sources, one of them without a summary
DummySources_short ==
    << Source("overview", "dummy_search_summary"), Source("tradeoffs", NULL) >>

DummySources ==
    << Source("overview", "dummy_search_summary"),
       Source("tradeoffs", "dummy_search_summary"),
       Source("reference", "dummy_search_summary") >>

\* mutant: the search without the rule "don't run search twice"
run_dummy_search_twice(db) ==
    IF ~db.run.exists THEN NotFound(db)
    ELSE IF ~_has_step_type(db, "planner")
    THEN InvalidState("Planner step missing; cannot run search.", db)
    ELSE Return([run |-> _set_status_running_if_pending(db.run),
                 steps |-> Append(db.steps,
                              ResearchStep(_next_step_index(db), "searcher", COMPLETED)),
                 sources |-> db.sources \o DummySources])

run_dummy_search(db) ==
    IF ~db.run.exists THEN NotFound(db)
    ELSE IF _has_step_type(db, "searcher")
    THEN InvalidState("Search has already been run for this research run.", db)
    ELSE IF ~_has_step_type(db, "planner")
    THEN InvalidState("Planner step missing; cannot run search.", db)
    ELSE Return([run |-> _set_status_running_if_pending(db.run),
                 steps |-> Append(db.steps,
                              ResearchStep(_next_step_index(db), "searcher", COMPLETED)),
                 sources |-> db.sources \o DummySources])

\* DuckDuckGoClient.search: the first `limit` anchors of the result page,
\* or the transport error of the request
DuckDuckGoClient_search(page, limit) ==
    [error |-> page.error, count |-> Min(page.anchors, limit)]

run_web_search(db, limit, page) ==
    IF ~db.run.exists THEN NotFound(db)
    ELSE IF _has_step_type(db, "searcher")
    THEN InvalidState("Search has already been run for this research run.", db)
    ELSE IF ~_has_step_type(db, "planner")
    THEN InvalidState("Planner step missing; cannot run search.", db)
    ELSE LET results == DuckDuckGoClient_search(page, limit) IN
         IF results.error THEN Raise("Transport", "search request failed", db)
         ELSE Return([run |-> _set_status_running_if_pending(db.run),
                      steps |-> Append(db.steps,
                                   ResearchStep(_next_step_index(db), "searcher", COMPLETED)),
                      sources |-> db.sources \o [i \in 1..results.count |-> Source(Href(i), NULL)]])

\* mutant: the reader marks the run completed
run_dummy_reader_completes(db) ==
    IF ~db.run.exists THEN NotFound(db)
    ELSE IF _has_step_type(db, "reader")
    THEN InvalidState("Reader has already been run for this research run.", db)
    ELSE IF ~_has_step_type(db, "searcher")
    THEN InvalidState("Run search before reader.", db)
    ELSE IF db.sources = <<>>
    THEN InvalidState("No sources available to read.", db)
    ELSE Return([run |-> _set_status_completed(db.run),
                 steps |-> Append(db.steps,
                              ResearchStep(_next_step_index(db), "reader", COMPLETED)),
                 sources |-> [i \in DOMAIN db.sources |->
                                 [db.sources[i] EXCEPT
                                     !.raw_content = "dummy_content",
                                     !.summary = "dummy_reader_summary"]]])

run_dummy_reader(db) ==
    IF ~db.run.exists THEN NotFound(db)
    ELSE IF _has_step_type(db, "reader")
    THEN InvalidState("Reader has already been run for this research run.", db)
    ELSE IF ~_has_step_type(db, "searcher")
    THEN InvalidState("Run search before reader.", db)
    ELSE IF db.sources = <<>>
    THEN InvalidState("No sources available to read.", db)
    ELSE Return([run |-> db.run,
                 steps |-> Append(db.steps,
                              ResearchStep(_next_step_index(db), "reader", COMPLETED)),
                 sources |-> [i \in DOMAIN db.sources |->
                                 [db.sources[i] EXCEPT
                                     !.raw_content = "dummy_content",
                                     !.summary = "dummy_reader_summary"]]])

\* mutant: to_read without the cut at limit
to_read_all(srcs, limit) ==
    {i \in DOMAIN srcs : srcs[i].raw_content = NULL}

\* to_read = [s for s in sources if not s.raw_content][:limit]
to_read(srcs, limit) ==
    {i \in DOMAIN srcs :
        /\ srcs[i].raw_content = NULL
        /\ Cardinality({j \in 1..i : srcs[j].raw_content = NULL}) <= limit}

\* mutant: a successful fetch also stores the url of the page it got
read_one_relocated(src, outcome) ==
    IF outcome = "ok"
    THEN [src EXCEPT !.url = "page_url", !.raw_content = "web_content",
                     !.summary = "web_summary"]
    ELSE src

\* read_one: a successful fetch fills raw_content and summary, a failing one
\* (unsafe URL, HTTP error, empty text, unexpected error) leaves the row alone
read_one(src, outcome) ==
    IF outcome = "ok"
    THEN [src EXCEPT !.raw_content = "web_content", !.summary = "web_summary"]
    ELSE src

\* mutant: the reader without the check that it has not run yet
run_web_reader_again(db, limit, fetch) ==
    IF ~db.run.exists THEN NotFound(db)
    ELSE IF ~_has_step_type(db, "searcher")
    THEN InvalidState("Run search before reader.", db)
    ELSE Return([run |-> db.run,
                 steps |-> Append(db.steps,
                              ResearchStep(_next_step_index(db), "reader", COMPLETED)),
                 sources |-> [i \in DOMAIN db.sources |->
                                 IF i \in to_read(db.sources, limit)
                                 THEN read_one(db.sources[i], fetch[i])
                                 ELSE db.sources[i]]])

run_web_reader(db, limit, fetch) ==
    IF ~db.run.exists THEN NotFound(db)
    ELSE IF ~_has_step_type(db, "searcher")
    THEN InvalidState("Run search before reader.", db)
    ELSE IF _has_step_type(db, "reader")
    THEN InvalidState("Reader has already been run for this research run.", db)
    ELSE Return([run |-> db.run,
                 steps |-> Append(db.steps,
                              ResearchStep(_next_step_index(db), "reader", COMPLETED)),
                 sources |-> [i \in DOMAIN db.sources |->
                                 IF i \in to_read(db.sources, limit)
                                 THEN read_one(db.sources[i], fetch[i])
                                 ELSE db.sources[i]]])

\* mutant: the synthesis that does not require the reader step
run_dummy_synthesis_unordered(db) ==
    IF ~db.run.exists THEN NotFound(db)
    ELSE IF _has_step_type(db, "synthesizer")
    THEN InvalidState("Synthesis has already been run for this research run.", db)
    ELSE Return([run |-> _set_status_completed(db.run),
                 steps |-> Append(db.steps,
                              ResearchStep(_next_step_index(db), "synthesizer", COMPLETED)),
                 sources |-> db.sources])

run_dummy_synthesis(db) ==
    IF ~db.run.exists THEN NotFound(db)
    ELSE IF _has_step_type(db, "synthesizer")
    THEN InvalidState("Synthesis has already been run for this research run.", db)
    ELSE IF ~_has_step_type(db, "reader")
    THEN InvalidState("Run reader before synthesis.", db)
    ELSE Return([run |-> _set_status_completed(db.run),
                 steps |-> Append(db.steps,
                              ResearchStep(_next_step_index(db), "synthesizer", COMPLETED)),
                 sources |-> db.sources])

\* llm: "unavailable" (get_llm_client raises), "error" (generate raises),
\* "json" (a completion that parses and validates), "not_json" (one that
\* does not: the degraded payload is committed instead)
run_llm_synthesis(db, llm) ==
    IF ~db.run.exists THEN NotFound(db)
    ELSE IF _has_step_type(db, "synthesizer")
    THEN InvalidState("Synthesis has already been run for this research run.", db)
    ELSE IF ~_has_step_type(db, "reader")
    THEN InvalidState("Run reader before synthesis.", db)
    ELSE IF db.sources = <<>>
    THEN InvalidState("No sources available for synthesis.", db)
    ELSE IF llm = "unavailable"
    THEN InvalidState("LLM client unavailable", db)
    ELSE IF llm = "error"
    THEN Raise("Transport", "LLM request failed", db)
    ELSE Return([run |-> _set_status_completed(db.run),
                 steps |-> Append(db.steps,
                              ResearchStep(_next_step_index(db), "synthesizer",
                                           ResearchStep_status_default)),
                 sources |-> db.sources])

\* ------------------------------------------------- what the environment does
\* the result page of the search provider: the request fails, or the page
\* holds some number of result anchors
Pages ==
    {[error |-> TRUE, anchors |-> 0]}
        \cup {[error |-> FALSE, anchors |-> n] : n \in 0..MaxResults}

FetchOutcomes == {"ok", "failed"}

LLMs == {"unavailable", "error", "json", "not_json"}

\* a stage outcome that is the failure of an external collaborator
IsFault(r) == r.result = "Transport" \/ r.message = "LLM client unavailable"

\* where the specification limits them (lim), the collaborators fail in
\* fewer calls than there are execute invocations
Env(lim, isfault) ==
    IF lim /\ isfault
    THEN faults + 1 < MaxExec /\ faults' = faults + 1
    ELSE faults' = faults

\* the time a stage may take; not measured where the failures are limited
Ticks(lim) == IF lim THEN {0} ELSE 0..1

\* ------------------------------------------------------------------ state
None == <<>>

Some(x) == <<x>>

Snapshot == [run |-> run, steps |-> steps, sources |-> sources, events |-> events]

\* no run_web_reader call has been made task by task
ReaderIdle ==
    [pc |-> "idle", limit |-> 0, to_read |-> {}, task |-> <<>>, semaphore |-> 0,
     read_count |-> 0, failed |-> <<>>, next_index |-> 0, sources |-> <<>>,
     fetched |-> <<>>]

\* no stage call with a session of its own is in progress
NoSessions == <<>>

\* no completion has been given to the synthesizer
NoSynthesis == [pc |-> "none"]

\* no Source is on its way through a reader
NoFetch == [pc |-> "none"]

\* get_run_state has not been asked
NoView == [pc |-> "none"]

\* the timestamps of the step rows are not followed
NoStamps == <<>>

\* no execute invocation with a session of its own is in progress
NoExecutes == <<>>

Init ==
    /\ run = [exists |-> FALSE, status |-> ResearchRun_status_default,
              error_message |-> NULL]
    /\ steps = <<>>
    /\ sources = <<>>
    /\ events = <<>>
    /\ clock = 0
    /\ call = [pc |-> "idle", mode |-> "dummy", started_at |-> 0, stage |-> NULL,
               first |-> NULL, failed |-> NULL, prev_failed |-> NULL]
    /\ last = [op |-> "none", result |-> "ok", message |-> NULL]
    /\ pre = [run |-> run, steps |-> <<>>, sources |-> <<>>, events |-> <<>>]
    /\ faults = 0
    /\ reader = ReaderIdle
    /\ fetcher = NoFetch
    /\ view = NoView
    /\ stamps = NoStamps
    /\ executes = NoExecutes
    /\ sessions = NoSessions
    /\ synthesis = NoSynthesis

\* create: the run in its default status with the seeded planner step
Create ==
    /\ call.pc = "idle"
    /\ ~run.exists
    /\ run' = [exists |-> TRUE, status |-> ResearchRun_status_default,
               error_message |-> NULL]
    /\ steps' = <<ResearchStep(0, "planner", COMPLETED)>>
    /\ last' = [op |-> "create", result |-> "ok", message |-> NULL]
    /\ pre' = Snapshot
    /\ UNCHANGED <<sources, events, clock, call, faults>>
    /\ UNCHANGED detail

\* ------------------------------------------- the stage entry points, direct
\* one call of a stage entry point with its own session: the commit of the
\* stage when it returns, nothing when it raises
\* mutant: a stage entry point that records an event of its own
StageCall_logged(op, r) ==
    /\ call.pc = "idle"
    /\ run' = r.db.run
    /\ steps' = r.db.steps
    /\ sources' = r.db.sources
    /\ last' = [op |-> op, result |-> r.result, message |-> r.message]
    /\ pre' = Snapshot
    /\ events' = Append(events, PipelineEvent("started", "dummy", NULL, None, NULL))
    /\ UNCHANGED <<clock, call>>
    /\ UNCHANGED detail

\* mutant: a stage entry point that marks the run failed when it raises
StageCall_failing(op, r) ==
    /\ call.pc = "idle"
    /\ run' = IF r.result = "ok" \/ ~r.db.run.exists THEN r.db.run
              ELSE [r.db.run EXCEPT !.status = FAILED, !.error_message = r.message]
    /\ steps' = r.db.steps
    /\ sources' = r.db.sources
    /\ last' = [op |-> op, result |-> r.result, message |-> r.message]
    /\ pre' = Snapshot
    /\ UNCHANGED <<events, clock, call>>
    /\ UNCHANGED detail

StageCall(op, r) ==
    /\ call.pc = "idle"
    /\ run' = r.db.run
    /\ steps' = r.db.steps
    /\ sources' = r.db.sources
    /\ last' = [op |-> op, result |-> r.result, message |-> r.message]
    /\ pre' = Snapshot
    /\ UNCHANGED <<events, clock, call>>
    /\ UNCHANGED detail

RunDummySearch(lim) ==
    /\ StageCall("run_dummy_search", run_dummy_search(DB))
    /\ Env(lim, IsFault(run_dummy_search(DB)))

RunWebSearch(lim) ==
    \E page \in Pages :
        /\ StageCall("run_web_search", run_web_search(DB, SearchLimit, page))
        /\ Env(lim, IsFault(run_web_search(DB, SearchLimit, page)))

RunDummyReader(lim) ==
    /\ StageCall("run_dummy_reader", run_dummy_reader(DB))
    /\ Env(lim, IsFault(run_dummy_reader(DB)))

RunWebReader(lim) ==
    \E fetch \in [DOMAIN sources -> FetchOutcomes] :
        /\ StageCall("run_web_reader", run_web_reader(DB, ReaderLimit, fetch))
        /\ Env(lim, IsFault(run_web_reader(DB, ReaderLimit, fetch)))

RunDummySynthesis(lim) ==
    /\ StageCall("run_dummy_synthesis", run_dummy_synthesis(DB))
    /\ Env(lim, IsFault(run_dummy_synthesis(DB)))

RunLlmSynthesis(lim) ==
    \E llm \in LLMs :
        /\ StageCall("run_llm_synthesis", run_llm_synthesis(DB, llm))
        /\ Env(lim, IsFault(run_llm_synthesis(DB, llm)))

\* ----------------------------------------------------------------- execute
\* int((now - started_at).total_seconds() * 1000)
\* mutant: the difference taken the wrong way round
duration_ms_reversed(started_at, now) == started_at - now

duration_ms(started_at, now) == now - started_at

\* execute_dummy_pipeline / execute_pipeline: a stage is run only when the
\* run has no step of its type
\* mutant: the pipeline runs every stage, whatever steps exist
stage_is_due_always(db, step_type) == TRUE

\* mutant: only the search is guarded by the step-type check
stage_is_due_search_only(db, step_type) ==
    step_type = "searcher" => ~_has_step_type(db, step_type)

stage_is_due(db, step_type) == ~_has_step_type(db, step_type)

\* the stage after step_type in the pipeline ("complete" after the last)
next_stage(step_type) ==
    CASE step_type = "searcher" -> "reader"
      [] step_type = "reader" -> "synthesizer"
      [] step_type = "synthesizer" -> "complete"

Executes == Cardinality({i \in DOMAIN events : events[i].event_type = "started"})

\* mutant: execute that names its stage only after the pipeline returned
ExecuteBegin_untagged(mode) ==
    /\ call.pc = "idle"
    /\ pre' = Snapshot
    /\ UNCHANGED detail
    /\ IF ~run.exists
       THEN /\ last' = [op |-> "execute", result |-> "NotFound",
                        message |-> "Research run not found"]
            /\ UNCHANGED <<run, steps, sources, events, clock, call, faults>>
       ELSE /\ Executes < MaxExec
            /\ events' = Append(events, PipelineEvent("started", mode, NULL, None, NULL))
            /\ call' = [pc |-> "searcher", mode |-> mode, started_at |-> clock,
                        stage |-> NULL,
                        first |-> NULL, failed |-> NULL,
                        prev_failed |-> IF call.failed # NULL THEN call.failed
                                        ELSE call.prev_failed]
            /\ UNCHANGED <<run, steps, sources, clock, last, faults>>

\* mutant: execute that commits its started event before it looks for the run
ExecuteBegin_eager(mode) ==
    /\ call.pc = "idle"
    /\ pre' = Snapshot
    /\ UNCHANGED detail
    /\ Executes < MaxExec
    /\ events' = Append(events, PipelineEvent("started", mode, NULL, None, NULL))
    /\ IF ~run.exists
       THEN /\ last' = [op |-> "execute", result |-> "NotFound",
                        message |-> "Research run not found"]
            /\ UNCHANGED <<run, steps, sources, clock, call, faults>>
       ELSE /\ call' = [pc |-> "searcher", mode |-> mode, started_at |-> clock,
                        stage |-> IF mode = "dummy" THEN "execute_dummy_pipeline"
                                  ELSE "execute_pipeline",
                        first |-> NULL, failed |-> NULL,
                        prev_failed |-> IF call.failed # NULL THEN call.failed
                                        ELSE call.prev_failed]
            /\ UNCHANGED <<run, steps, sources, clock, last, faults>>

\* execute up to the commit of the started event; NotFound before anything
\* is written when the run does not exist
ExecuteBegin(mode) ==
    /\ call.pc = "idle"
    /\ pre' = Snapshot
    /\ UNCHANGED detail
    /\ IF ~run.exists
       THEN /\ last' = [op |-> "execute", result |-> "NotFound",
                        message |-> "Research run not found"]
            /\ UNCHANGED <<run, steps, sources, events, clock, call, faults>>
       ELSE /\ Executes < MaxExec
            /\ events' = Append(events, PipelineEvent("started", mode, NULL, None, NULL))
            /\ call' = [pc |-> "searcher", mode |-> mode, started_at |-> clock,
                        stage |-> IF mode = "dummy" THEN "execute_dummy_pipeline"
                                  ELSE "execute_pipeline",
                        first |-> NULL, failed |-> NULL,
                        prev_failed |-> IF call.failed # NULL THEN call.failed
                                        ELSE call.prev_failed]
            /\ UNCHANGED <<run, steps, sources, clock, last, faults>>

\* the except branch of execute: rollback, the run marked failed, the failed
\* event, one commit, and the exception raised again
\* mutant: the except branch that records the event but leaves the run alone
ExecuteExcept_unmarked(step_type, exc, now) ==
    /\ run' = run
    /\ events' = Append(events,
                    PipelineEvent("failed", call.mode, call.stage,
                                  Some(duration_ms(call.started_at, now)),
                                  exc.message))
    /\ call' = [call EXCEPT !.pc = "idle", !.failed = step_type,
                            !.first = IF @ = NULL THEN step_type ELSE @]
    /\ last' = [op |-> "execute", result |-> exc.result, message |-> exc.message]
    /\ UNCHANGED <<steps, sources>>

ExecuteExcept(step_type, exc, now) ==
    /\ run' = [run EXCEPT !.status = FAILED, !.error_message = exc.message]
    /\ events' = Append(events,
                    PipelineEvent("failed", call.mode, call.stage,
                                  Some(duration_ms(call.started_at, now)),
                                  exc.message))
    /\ call' = [call EXCEPT !.pc = "idle", !.failed = step_type,
                            !.first = IF @ = NULL THEN step_type ELSE @]
    /\ last' = [op |-> "execute", result |-> exc.result, message |-> exc.message]
    /\ UNCHANGED <<steps, sources>>

\* one stage of the pipeline inside execute: skipped when a step of its type
\* exists, committed when the stage returns, the except branch when it raises
PipelineStage(step_type, r, d, lim) ==
    /\ call.pc = step_type
    /\ UNCHANGED pre
    /\ UNCHANGED detail
    /\ IF ~stage_is_due(DB, step_type)
       THEN /\ call' = [call EXCEPT !.pc = next_stage(step_type)]
            /\ UNCHANGED <<run, steps, sources, events, clock, last, faults>>
       ELSE /\ clock + d <= MaxClock
            /\ clock' = clock + d
            /\ Env(lim, IsFault(r))
            /\ IF r.result = "ok"
               THEN /\ run' = r.db.run
                    /\ steps' = r.db.steps
                    /\ sources' = r.db.sources
                    /\ call' = [call EXCEPT !.pc = next_stage(step_type),
                                            !.first = IF @ = NULL THEN step_type ELSE @]
                    /\ UNCHANGED <<events, last>>
               ELSE ExecuteExcept(step_type, r, clock')

ExecuteSearch(lim) ==
    \E page \in Pages, d \in Ticks(lim) :
        PipelineStage("searcher",
                      IF call.mode = "dummy" THEN run_dummy_search(DB)
                      ELSE run_web_search(DB, SearchLimit, page),
                      d, lim)

ExecuteReader(lim) ==
    \E fetch \in [DOMAIN sources -> FetchOutcomes], d \in Ticks(lim) :
        PipelineStage("reader",
                      IF call.mode = "dummy" THEN run_dummy_reader(DB)
                      ELSE run_web_reader(DB, ReaderLimit, fetch),
                      d, lim)

ExecuteSynthesis(lim) ==
    \E llm \in LLMs, d \in Ticks(lim) :
        PipelineStage("synthesizer",
                      IF call.mode = "dummy" THEN run_dummy_synthesis(DB)
                      ELSE run_llm_synthesis(DB, llm),
                      d, lim)

\* mutant: the terminal event written over the started event of the call
ExecuteComplete_in_place ==
    /\ call.pc = "complete"
    /\ events' = [events EXCEPT ![Len(events)] =
                      PipelineEvent("completed", call.mode, call.stage,
                                    Some(duration_ms(call.started_at, clock)), NULL)]
    /\ call' = [call EXCEPT !.pc = "idle"]
    /\ last' = [op |-> "execute", result |-> "ok", message |-> NULL]
    /\ UNCHANGED <<run, steps, sources, clock, pre, faults>>
    /\ UNCHANGED detail

\* the pipeline returned: the completed event is committed
ExecuteComplete ==
    /\ call.pc = "complete"
    /\ events' = Append(events,
                    PipelineEvent("completed", call.mode, call.stage,
                                  Some(duration_ms(call.started_at, clock)), NULL))
    /\ call' = [call EXCEPT !.pc = "idle"]
    /\ last' = [op |-> "execute", result |-> "ok", message |-> NULL]
    /\ UNCHANGED <<run, steps, sources, clock, pre, faults>>
    /\ UNCHANGED detail

Next ==
    \/ Create
    \/ RunDummySearch(FALSE)
    \/ RunWebSearch(FALSE)
    \/ RunDummyReader(FALSE)
    \/ RunWebReader(FALSE)
    \/ RunDummySynthesis(FALSE)
    \/ RunLlmSynthesis(FALSE)
    \/ \E mode \in Modes : ExecuteBegin(mode)
    \/ ExecuteSearch(FALSE)
    \/ ExecuteReader(FALSE)
    \/ ExecuteSynthesis(FALSE)
    \/ ExecuteComplete

Spec == Init /\ [][Next]_vars

\* execute(R, mode) called again: the mode of the first call is kept
ExecuteAgain ==
    \E mode \in Modes :
        /\ Executes = 0 \/ mode = call.mode
        /\ ExecuteBegin(mode)

\* execute called again and again, with collaborators that fail in fewer
\* calls than there are invocations: every step of an execute is taken
NextLive ==
    \/ Create
    \/ RunDummySearch(TRUE)
    \/ RunWebSearch(TRUE)
    \/ RunDummyReader(TRUE)
    \/ RunWebReader(TRUE)
    \/ RunDummySynthesis(TRUE)
    \/ RunLlmSynthesis(TRUE)
    \/ ExecuteAgain
    \/ ExecuteSearch(TRUE)
    \/ ExecuteReader(TRUE)
    \/ ExecuteSynthesis(TRUE)
    \/ ExecuteComplete

SpecLive ==
    /\ Init
    /\ [][NextLive]_vars
    /\ WF_vars(ExecuteAgain)
    /\ WF_vars(ExecuteSearch(TRUE))
    /\ WF_vars(ExecuteReader(TRUE))
    /\ WF_vars(ExecuteSynthesis(TRUE))
    /\ WF_vars(ExecuteComplete)

\* ------------------------------------------- the real reader, task by task
\* mutant: a semaphore with a place for every task
ReaderSemaphore_wide == ReaderLimit

\* semaphore = asyncio.Semaphore(4)
ReaderSemaphore == 4

\* "failed": failed[:10]
FailedShown == 10

\* what fetch_html, extract_text_from_html and the emptiness test raise for
\* one URL: an unsafe URL, a transport error, an oversize response, an empty
\* text, or anything else
FetchExceptions ==
    { [class |-> "UnsafeUrlError", message |-> "Private/local IP URLs are not allowed."],
      [class |-> "httpx.HTTPError", message |-> "ConnectError"],
      [class |-> "httpx.HTTPError", message |-> "Response too large"],
      [class |-> "ValueError", message |-> "Empty extracted text"],
      [class |-> "RuntimeError", message |-> "boom"] }

\* the page was fetched and its text is not empty
Fetched == [class |-> "none", message |-> NULL]

\* mutant: every exception recorded as an unexpected one
read_one_except_any(url, exc) ==
    [url |-> url, error |-> "Unexpected error: " \o exc.message]

\* the except clauses of read_one: the entry appended to failed
read_one_except(url, exc) ==
    IF exc.class \in {"UnsafeUrlError", "httpx.HTTPError", "ValueError"}
    THEN [url |-> url, error |-> exc.message]
    ELSE [url |-> url, error |-> "Unexpected error: " \o exc.message]

\* mutant: a read whose increment of read_count is lost
read_one_body_uncounted(rd, i, res) ==
    IF res = Fetched
    THEN [rd EXCEPT !.task[i] = "done", !.semaphore = @ + 1,
                    !.sources[i] = read_one(@, "ok"),
                    !.fetched[i] = res]
    ELSE [rd EXCEPT !.task[i] = "done", !.semaphore = @ + 1,
                    !.failed = Append(@, read_one_except(i, res)),
                    !.fetched[i] = res]

\* read_one from the await of fetch_html to the release of the semaphore;
\* the URL of a source is its position among the sources
read_one_body(rd, i, res) ==
    IF res = Fetched
    THEN [rd EXCEPT !.task[i] = "done", !.semaphore = @ + 1,
                    !.sources[i] = read_one(@, "ok"),
                    !.read_count = @ + 1,
                    !.fetched[i] = res]
    ELSE [rd EXCEPT !.task[i] = "done", !.semaphore = @ + 1,
                    !.failed = Append(@, read_one_except(i, res)),
                    !.fetched[i] = res]

\* the reader step with its output
ReaderStep(index, output) ==
    [step_index |-> index, step_type |-> "reader", status |-> COMPLETED,
     output |-> output]

\* the step committed when to_read is empty
NothingToRead(index) ==
    ReaderStep(index, [attempted |-> 0, read_count |-> 0, failed_count |-> 0,
                       failed |-> <<>>, notes |-> "No unread sources found."])

\* the step committed after gather
ReaderOutput(rd) ==
    [attempted |-> Cardinality(rd.to_read),
     read_count |-> rd.read_count,
     failed_count |-> Len(rd.failed),
     failed |-> SubSeq(rd.failed, 1, Min(Len(rd.failed), FailedShown))]

InFlight(rd) == {i \in rd.to_read : rd.task[i] = "fetching"}

\* the limit of a call: the default, which execute passes too, or a lower one
ReaderLimits == {2, ReaderLimit}

\* a run after its search, with n unread sources, up to the default limit of
\* the reader, and one already read, the second when there are others; or a
\* run before its search or after its reader, to be refused
InitReader ==
    /\ run = [exists |-> TRUE, status |-> RUNNING, error_message |-> NULL]
    /\ \E n \in 0..ReaderLimit, k \in 1..3 :
          /\ k # 2 => n = 0
          /\ steps = [j \in 1..k |-> ResearchStep(j - 1, ResearchStepType[j], COMPLETED)]
          /\ sources = [i \in 1..(n + 1) |->
                           IF i = Min(2, n + 1)
                           THEN read_one(Source(Href(i), NULL), "ok")
                           ELSE Source(Href(i), NULL)]
    /\ events = <<>>
    /\ clock = 0
    /\ call = [pc |-> "idle", mode |-> "real", started_at |-> 0, stage |-> NULL,
               first |-> NULL, failed |-> NULL, prev_failed |-> NULL]
    /\ last = [op |-> "run_web_search", result |-> "ok", message |-> NULL]
    /\ pre = Snapshot
    /\ faults = 0
    /\ reader = ReaderIdle
    /\ fetcher = NoFetch
    /\ view = NoView
    /\ stamps = NoStamps
    /\ executes = NoExecutes
    /\ sessions = NoSessions
    /\ synthesis = NoSynthesis

\* run_web_reader up to the gather: the checks, to_read and next_index; the
\* step committed at once when there is nothing to read
ReaderBegin ==
    /\ reader.pc = "idle"
    /\ pre' = Snapshot
    /\ UNCHANGED <<run, events, clock, call, faults, sessions, synthesis, boundary>>
    /\ \E limit \in ReaderLimits :
       IF ~_has_step_type(DB, "searcher")
          THEN /\ last' = [op |-> "run_web_reader", result |-> "InvalidState",
                           message |-> "Run search before reader."]
               /\ UNCHANGED <<steps, sources, reader>>
          ELSE IF _has_step_type(DB, "reader")
          THEN /\ last' = [op |-> "run_web_reader", result |-> "InvalidState",
                           message |-> "Reader has already been run for this research run."]
               /\ UNCHANGED <<steps, sources, reader>>
          ELSE IF to_read(sources, limit) = {}
          THEN /\ steps' = Append(steps, NothingToRead(_next_step_index(DB)))
               /\ last' = [op |-> "run_web_reader", result |-> "ok", message |-> NULL]
               /\ reader' = [ReaderIdle EXCEPT !.pc = "done", !.limit = limit]
               /\ UNCHANGED sources
          ELSE /\ reader' = [pc |-> "gather",
                             limit |-> limit,
                             to_read |-> to_read(sources, limit),
                             task |-> [i \in to_read(sources, limit) |-> "waiting"],
                             semaphore |-> ReaderSemaphore,
                             read_count |-> 0,
                             failed |-> <<>>,
                             next_index |-> _next_step_index(DB),
                             sources |-> sources,
                             fetched |-> [i \in to_read(sources, limit) |-> Fetched]]
               /\ UNCHANGED <<steps, sources, last>>

\* async with semaphore: a task enters when the semaphore has a free place
ReaderAcquire(i) ==
    /\ reader.pc = "gather"
    /\ reader.task[i] = "waiting"
    /\ reader.semaphore > 0
    /\ reader' = [reader EXCEPT !.task[i] = "fetching", !.semaphore = @ - 1]
    /\ UNCHANGED <<run, steps, sources, events, clock, call, last, pre, faults,
                   sessions, synthesis, boundary>>

\* the fetch of one task ends, with a page or with an exception
ReaderFetch(i, res) ==
    /\ reader.pc = "gather"
    /\ reader.task[i] = "fetching"
    /\ reader' = read_one_body(reader, i, res)
    /\ UNCHANGED <<run, steps, sources, events, clock, call, last, pre, faults,
                   sessions, synthesis, boundary>>

\* gather has returned: the step and the rows read are committed
ReaderCommit ==
    /\ reader.pc = "gather"
    /\ \A i \in reader.to_read : reader.task[i] = "done"
    /\ steps' = Append(steps, ReaderStep(reader.next_index, ReaderOutput(reader)))
    /\ sources' = reader.sources
    /\ reader' = [reader EXCEPT !.pc = "done"]
    /\ last' = [op |-> "run_web_reader", result |-> "ok", message |-> NULL]
    /\ UNCHANGED <<run, events, clock, call, pre, faults, sessions, synthesis, boundary>>

NextReader ==
    \/ ReaderBegin
    \/ \E i \in reader.to_read : ReaderAcquire(i)
    \/ \E i \in reader.to_read, res \in {Fetched} \cup FetchExceptions :
          ReaderFetch(i, res)
    \/ ReaderCommit

SpecReader == InitReader /\ [][NextReader]_vars

\* ------------------------------- stage calls, each with a session of its own
\* the invocations that may be in progress on the run at the same time
MaxSessions == 2

Sessions == 1..MaxSessions

SessionIdle == [pc |-> "idle"]

\* the stage entry points
StageOps ==
    {"run_dummy_search", "run_web_search", "run_dummy_reader", "run_web_reader",
     "run_dummy_synthesis", "run_llm_synthesis"}

\* the fetches of a reader call all succeed or all fail
UniformFetches(srcs) == {[i \in DOMAIN srcs |-> outcome] : outcome \in FetchOutcomes}

\* the outcomes a stage entry point may have on the rows its queries return,
\* one for each answer of its collaborator
StageResults(op, db) ==
    CASE op = "run_dummy_search" -> {run_dummy_search(db)}
      [] op = "run_web_search" ->
            {run_web_search(db, SearchLimit, page) : page \in Pages}
      [] op = "run_dummy_reader" -> {run_dummy_reader(db)}
      [] op = "run_web_reader" ->
            {run_web_reader(db, ReaderLimit, fetch) : fetch \in UniformFetches(db.sources)}
      [] op = "run_dummy_synthesis" -> {run_dummy_synthesis(db)}
      [] op = "run_llm_synthesis" -> {run_llm_synthesis(db, llm) : llm \in LLMs}

\* mutant: a commit that inserts the steps and leaves the added Sources to a
\* later one
Flush_steps_only(db, seen, mine) ==
    [run |-> IF mine.run.status # seen.run.status
             THEN [db.run EXCEPT !.status = mine.run.status]
             ELSE db.run,
     steps |-> db.steps \o SubSeq(mine.steps, Len(seen.steps) + 1, Len(mine.steps)),
     sources |-> [i \in DOMAIN db.sources |->
                     IF i \in DOMAIN seen.sources /\ mine.sources[i] # seen.sources[i]
                     THEN mine.sources[i]
                     ELSE db.sources[i]]]

\* session.commit(): the rows added to the session are inserted, the rows it
\* changed are updated; rows are told apart by their position
Flush(db, seen, mine) ==
    [run |-> IF mine.run.status # seen.run.status
             THEN [db.run EXCEPT !.status = mine.run.status]
             ELSE db.run,
     steps |-> db.steps \o SubSeq(mine.steps, Len(seen.steps) + 1, Len(mine.steps)),
     sources |-> [i \in DOMAIN db.sources |->
                     IF i \in DOMAIN seen.sources /\ mine.sources[i] # seen.sources[i]
                     THEN mine.sources[i]
                     ELSE db.sources[i]]
                 \o SubSeq(mine.sources, Len(seen.sources) + 1, Len(mine.sources))]

\* a run as create leaves it, with no invocation in progress
InitConcurrent ==
    /\ run = [exists |-> TRUE, status |-> ResearchRun_status_default,
              error_message |-> NULL]
    /\ steps = <<ResearchStep(0, "planner", COMPLETED)>>
    /\ sources = <<>>
    /\ events = <<>>
    /\ clock = 0
    /\ call = [pc |-> "idle", mode |-> "dummy", started_at |-> 0, stage |-> NULL,
               first |-> NULL, failed |-> NULL, prev_failed |-> NULL]
    /\ last = [op |-> "create", result |-> "ok", message |-> NULL]
    /\ pre = Snapshot
    /\ faults = 0
    /\ reader = ReaderIdle
    /\ fetcher = NoFetch
    /\ view = NoView
    /\ stamps = NoStamps
    /\ executes = NoExecutes
    /\ sessions = [s \in Sessions |-> SessionIdle]
    /\ synthesis = NoSynthesis

\* a stage entry point up to its commit: the checks and the reads of the
\* stage on the committed rows, and the call of its collaborator; the stage
\* raises here or goes on to its commit
SessionBegin(s, op) ==
    \E r \in StageResults(op, DB) :
        /\ sessions[s].pc = "idle"
        /\ IF r.result = "ok"
           THEN /\ sessions' = [sessions EXCEPT ![s] =
                                   [pc |-> "commit", op |-> op, seen |-> DB, mine |-> r.db]]
                /\ UNCHANGED last
           ELSE /\ last' = [op |-> op, result |-> r.result, message |-> r.message]
                /\ UNCHANGED sessions
        /\ UNCHANGED <<run, steps, sources, events, clock, call, pre, faults,
                       reader, synthesis, boundary>>

\* the commit of the stage, with no further read of the preconditions
SessionCommit(s) ==
    /\ sessions[s].pc = "commit"
    /\ run' = Flush(DB, sessions[s].seen, sessions[s].mine).run
    /\ steps' = Flush(DB, sessions[s].seen, sessions[s].mine).steps
    /\ sources' = Flush(DB, sessions[s].seen, sessions[s].mine).sources
    /\ last' = [op |-> sessions[s].op, result |-> "ok", message |-> NULL]
    /\ sessions' = [sessions EXCEPT ![s] = SessionIdle]
    /\ UNCHANGED <<events, clock, call, pre, faults, reader, synthesis, boundary>>

NextConcurrent ==
    \/ \E s \in Sessions, op \in StageOps : SessionBegin(s, op)
    \/ \E s \in Sessions : SessionCommit(s)

SpecConcurrent == InitConcurrent /\ [][NextConcurrent]_vars

\* ------------------------- one stage call at a time, which may be cancelled
\* the invocation is cancelled, or its process dies, at an await before its
\* commit: the session is closed and its transaction rolled back
SessionAbort(s) ==
    /\ sessions[s].pc = "commit"
    /\ sessions' = [sessions EXCEPT ![s] = SessionIdle]
    /\ last' = [op |-> sessions[s].op, result |-> "Cancelled", message |-> NULL]
    /\ UNCHANGED <<run, steps, sources, events, clock, call, pre, faults,
                   reader, synthesis, boundary>>

NextCommit ==
    \/ \E op \in StageOps : SessionBegin(1, op)
    \/ SessionCommit(1)
    \/ SessionAbort(1)

SpecCommit == InitConcurrent /\ [][NextCommit]_vars

\* ------------------------------------ the real synthesizer and its output
\* the longest key_points and risks lists of a completion
MaxItems == 2

\* the most sources a synthesized run has
MaxSynthSources == 3

\* confidences are in tenths
\* min(confidence, 0.3) when citations are missing
MissingCitationsCap == 3

\* min(confidence, 0.4) when the coverage is low
LowCoverageCap == 4

\* mutant: degraded payloads with a confidence of 0.5
DegradedConfidence_half == LowCoverageCap + 1

\* "confidence": 0.2 of the two degraded payloads
DegradedConfidence == 2

\* source_count >= 3 and coverage_ratio < 0.4
CoverageMinSources == 3

CoverageRatioTenths == 4

\* a text of the completion is the set of the numbers n it has a marker [n]
\* for: no marker, a marker no source has, one source, two sources
Texts == {{}, {0}, {1}, {1, 2}}

TextLists == UNION {[1..n -> Texts] : n \in 0..MaxItems}

SynthesisOutput_fields ==
    {"summary", "key_points", "risks", "recommendation", "confidence"}

\* what json.loads makes of a completion that is JSON: an object with all the
\* fields of the schema, or one that lacks a field
JsonObjects ==
    [present : {SynthesisOutput_fields}, summary : {"llm_summary"},
     key_points : TextLists, risks : TextLists,
     recommendation : {"llm_recommendation"},
     confidence : {-1, 0, 3, 5, 10, 11}]
    \cup
    [present : {SynthesisOutput_fields \ {"recommendation"}}, summary : {"llm_summary"},
     key_points : {<<{1}>>}, risks : {<<>>},
     recommendation : {NULL}, confidence : {5}]

\* the completions of the LLM: text that is not JSON, or the text of an object
Completions ==
    {[json |-> FALSE, object |-> None]}
        \cup {[json |-> TRUE, object |-> Some(object)] : object \in JsonObjects}

\* the payload substituted when json.loads raises
JsonFailedPayload ==
    [present |-> SynthesisOutput_fields,
     summary |-> "Failed to parse model output as JSON.",
     key_points |-> <<>>,
     risks |-> << {} >>,
     recommendation |-> "Try running synthesis again or adjust prompt constraints.",
     confidence |-> DegradedConfidence]

\* the payload substituted when the validation raises
SchemaFailedPayload ==
    [summary |-> "Model output did not match required schema.",
     key_points |-> <<>>,
     risks |-> << {} >>,
     recommendation |-> "Try running synthesis again or refine the prompt/schema.",
     confidence |-> DegradedConfidence]

\* try: parsed = json.loads(raw_completion) except: the payload, str(exc)
json_loads(raw_completion) ==
    IF raw_completion.json
    THEN [parsed |-> raw_completion.object[1], parse_error |-> NULL]
    ELSE [parsed |-> JsonFailedPayload, parse_error |-> "Expecting value"]

\* SynthesisOutput: every field required, confidence ge 0.0 and le 1.0
SynthesisOutput_model_validate(parsed) ==
    /\ parsed.present = SynthesisOutput_fields
    /\ parsed.confidence >= 0
    /\ parsed.confidence <= 10

\* validated.model_dump(): the fields of the schema and no other
model_dump(parsed) ==
    [summary |-> parsed.summary, key_points |-> parsed.key_points,
     risks |-> parsed.risks, recommendation |-> parsed.recommendation,
     confidence |-> parsed.confidence]

\* f"{parse_error or ''} | schema_error={exc}".strip(" |")
schema_error(parse_error) ==
    IF parse_error = NULL THEN "schema_error=validation error"
    ELSE parse_error \o " | schema_error=validation error"

\* try: validate except: the payload, the parse_error extended
validated(loaded) ==
    IF SynthesisOutput_model_validate(loaded.parsed)
    THEN [output_payload |-> model_dump(loaded.parsed),
          parse_error |-> loaded.parse_error]
    ELSE [output_payload |-> SchemaFailedPayload,
          parse_error |-> schema_error(loaded.parse_error)]

\* citation_pattern.search(text): the text has a marker [digits]
_has_citation(text) == text # {}

\* the positions (from 0, as enumerate counts) of the texts without a marker
Uncited(texts) == {idx \in 0..(Len(texts) - 1) : ~_has_citation(texts[idx + 1])}

\* the members of a set of positions in increasing order, under a list name
RECURSIVE Fields(_, _)
Fields(name, positions) ==
    IF positions = {} THEN <<>>
    ELSE LET idx == CHOOSE i \in positions : \A j \in positions : i <= j
         IN  <<[list |-> name, idx |-> idx]>> \o Fields(name, positions \ {idx})

\* mutant: the citations looked for in key_points only
missing_citations_key_points(output_payload) ==
    Fields("key_points", Uncited(output_payload.key_points))

\* missing_citations: key_points[idx] for each key point without a marker,
\* then risks[idx] for each risk without one
missing_citations(output_payload) ==
    Fields("key_points", Uncited(output_payload.key_points))
        \o Fields("risks", Uncited(output_payload.risks))

\* mutant: every marker counts, whatever its number
cited_indices_unbounded(output_payload, source_count) ==
    {n \in 0..source_count + 1 :
        \/ \E i \in DOMAIN output_payload.key_points : n \in output_payload.key_points[i]
        \/ \E i \in DOMAIN output_payload.risks : n \in output_payload.risks[i]}

\* the sources 1..source_count that a key point or a risk has a marker for
cited_indices(output_payload, source_count) ==
    {n \in 1..source_count :
        \/ \E i \in DOMAIN output_payload.key_points : n \in output_payload.key_points[i]
        \/ \E i \in DOMAIN output_payload.risks : n \in output_payload.risks[i]}

\* source_count >= 3 and coverage_ratio < 0.4
low_source_coverage(cited, source_count) ==
    /\ source_count >= CoverageMinSources
    /\ 10 * Cardinality(cited) < CoverageRatioTenths * source_count

\* the confidence after the two caps
capped_confidence(confidence, missing, low) ==
    LET after_citations == IF missing # <<>> THEN Min(confidence, MissingCitationsCap)
                           ELSE confidence
    IN  IF low THEN Min(after_citations, LowCoverageCap) ELSE after_citations

\* _warnings: one entry for the missing citations, then one for the coverage
warnings(missing, low, cited, source_count) ==
    (IF missing # <<>> THEN <<[type |-> "missing_citations", fields |-> missing]>>
     ELSE <<>>)
    \o (IF low THEN <<[type |-> "low_source_coverage",
                       coverage_ratio |-> <<Cardinality(cited), source_count>>]>>
        ELSE <<>>)

\* output_payload["_meta"] after the coverage is computed
payload_meta(cited, source_count) ==
    [unique_sources_cited |-> Cardinality(cited),
     coverage_ratio |-> <<Cardinality(cited), source_count>>]

\* the output of the synthesizer step: the payload with its capped
\* confidence, _warnings when there is one, and the _meta of the step;
\* in {**output_payload, "_meta": {...}} the later key replaces the
\* payload's "_meta", payload_meta, as a whole
step_output(v, raw_completion, source_count) ==
    LET payload == v.output_payload
        missing == missing_citations(payload)
        cited == cited_indices(payload, source_count)
        low == low_source_coverage(cited, source_count)
        meta == [raw_completion |-> raw_completion,
                 parse_error |-> v.parse_error,
                 source_count |-> source_count]
    IN  IF warnings(missing, low, cited, source_count) = <<>>
        THEN [summary |-> payload.summary, key_points |-> payload.key_points,
              risks |-> payload.risks, recommendation |-> payload.recommendation,
              confidence |-> capped_confidence(payload.confidence, missing, low),
              _meta |-> meta]
        ELSE [summary |-> payload.summary, key_points |-> payload.key_points,
              risks |-> payload.risks, recommendation |-> payload.recommendation,
              confidence |-> capped_confidence(payload.confidence, missing, low),
              _warnings |-> warnings(missing, low, cited, source_count),
              _meta |-> meta]

\* the synthesizer step as run_llm_synthesis builds it: no status given
SynthesizerStep(index, output) ==
    [step_index |-> index, step_type |-> "synthesizer",
     status |-> ResearchStep_status_default, output |-> output]

\* a run after its reader with 1..MaxSynthSources sources, and the completion
\* the LLM is going to return
InitSynthesis ==
    /\ run = [exists |-> TRUE, status |-> RUNNING, error_message |-> NULL]
    /\ steps = [j \in 1..3 |-> ResearchStep(j - 1, ResearchStepType[j], COMPLETED)]
    /\ \E n \in 1..MaxSynthSources :
          sources = [i \in 1..n |-> read_one(Source(Href(i), NULL), "ok")]
    /\ events = <<>>
    /\ clock = 0
    /\ call = [pc |-> "idle", mode |-> "real", started_at |-> 0, stage |-> NULL,
               first |-> NULL, failed |-> NULL, prev_failed |-> NULL]
    /\ last = [op |-> "run_web_reader", result |-> "ok", message |-> NULL]
    /\ pre = Snapshot
    /\ faults = 0
    /\ reader = ReaderIdle
    /\ fetcher = NoFetch
    /\ view = NoView
    /\ stamps = NoStamps
    /\ executes = NoExecutes
    /\ sessions = NoSessions
    /\ \E raw_completion \in Completions :
          synthesis = [pc |-> "generate", raw_completion |-> raw_completion]

\* run_llm_synthesis with the completion: the checks, the output, the step
\* and the status in one commit
RunLlmSynthesisWith ==
    /\ synthesis.pc = "generate"
    /\ pre' = Snapshot
    /\ LET r == run_llm_synthesis(DB, IF synthesis.raw_completion.json
                                      THEN "json" ELSE "not_json")
       IN  /\ last' = [op |-> "run_llm_synthesis", result |-> r.result,
                       message |-> r.message]
           /\ run' = r.db.run
           /\ sources' = r.db.sources
           /\ steps' = IF r.result # "ok" THEN steps
                       ELSE Append(steps,
                              SynthesizerStep(_next_step_index(DB),
                                  step_output(validated(json_loads(synthesis.raw_completion)),
                                              synthesis.raw_completion,
                                              Len(sources))))
    /\ synthesis' = [synthesis EXCEPT !.pc = "done"]
    /\ UNCHANGED <<events, clock, call, faults, reader, sessions, boundary>>

NextSynthesis == RunLlmSynthesisWith

SpecSynthesis == InitSynthesis /\ [][NextSynthesis]_vars

\* ============================================================== properties
HasStep(ss, step_type) == \E i \in DOMAIN ss : ss[i].step_type = step_type

StepsOfType(ss, step_type) == {i \in DOMAIN ss : ss[i].step_type = step_type}

AllStages == \A k \in 1..4 : HasStep(steps, ResearchStepType[k])

\* the last invocation was an execute on an existing run and it has ended
ExecuteEnded == call.pc = "idle" /\ last.op = "execute" /\ last.result # "NotFound"

\* C1: a run whose status is completed has a synthesizer step whose own
\* status is completed.
C1_CompletedHasCompletedSynthesizer ==
    run.status = COMPLETED =>
        \E i \in DOMAIN steps :
            steps[i].step_type = "synthesizer" /\ steps[i].status = COMPLETED

C3_AtMostOneStepPerType ==
    \A k \in 1..4 : Cardinality(StepsOfType(steps, ResearchStepType[k])) <= 1

\* C3 witness: all four stages are committed and a repeated stage call has
\* just been rejected.
C3_Witness ==
    /\ AllStages
    /\ last.op = "run_dummy_search"
    /\ last.result = "InvalidState"

\* C4: if a step of a stage type exists, a step of the preceding stage type
\* of the chain planner, searcher, reader, synthesizer exists too.
C4_StageChain ==
    \A k \in 2..4 :
        HasStep(steps, ResearchStepType[k]) => HasStep(steps, ResearchStepType[k - 1])

\* C4 witness: a synthesizer step committed by the real stage on sources of
\* the dummy search.
C4_Witness ==
    /\ \E i \in DOMAIN steps :
          steps[i].step_type = "synthesizer" /\ steps[i].status = PENDING
    /\ \E i \in DOMAIN sources : sources[i].summary = "dummy_search_summary"

\* C5: the step_index values of the run are 0, 1, ..., k in commit order:
\* distinct, contiguous from 0, each new step one above the largest before.
C5_StepIndexPrefix ==
    \A i \in DOMAIN steps : steps[i].step_index = i - 1

\* C5 witness: four steps committed by a mix of direct calls and execute.
C5_Witness ==
    /\ Len(steps) = 4
    /\ Len(events) = 2
    /\ last.op = "run_dummy_synthesis"

HasCompletedEvent(evs) == \E i \in DOMAIN evs : evs[i].event_type = "completed"

\* pre is the snapshot taken when the execute in call started
ExecuteCurrent == call.pc # "idle" \/ ExecuteEnded

\* the first stage type of the pipeline that has no step in ss
FirstMissing(ss) ==
    IF ~HasStep(ss, "searcher") THEN "searcher"
    ELSE IF ~HasStep(ss, "reader") THEN "reader"
    ELSE IF ~HasStep(ss, "synthesizer") THEN "synthesizer"
    ELSE NULL

\* C6: an execute that starts after an execute has completed (in either
\* mode) adds no step and no source at any point, leaves the status
\* completed, succeeds, and records exactly one more started event and one
\* more completed event.
C6_ReExecuteIsNoOp ==
    (ExecuteCurrent /\ HasCompletedEvent(pre.events)) =>
        /\ steps = pre.steps
        /\ sources = pre.sources
        /\ pre.run.status = COMPLETED
        /\ run = pre.run
        /\ ExecuteEnded =>
              /\ last.result = "ok"
              /\ events = pre.events \o
                     << PipelineEvent("started", call.mode, NULL, None, NULL),
                        events[Len(events)] >>
              /\ events[Len(events)].event_type = "completed"

\* C6 witness: an execute ended after an earlier execute of the same mode
\* had completed.
C6_Witness ==
    /\ ExecuteEnded
    /\ \E i \in DOMAIN pre.events :
          pre.events[i].event_type = "completed" /\ pre.events[i].mode = call.mode

\* C7: in an execute that follows an execute that failed in stage T, every
\* stage type that already had a step when it started keeps exactly one
\* step, and the first stage it runs is the first stage type with no step;
\* that stage is T whenever T still has no step, and then it is run.
C7_ResumeAtFailedStage ==
    (ExecuteCurrent /\ call.prev_failed # NULL) =>
        /\ \A k \in 1..4 :
              HasStep(pre.steps, ResearchStepType[k]) =>
                  Cardinality(StepsOfType(steps, ResearchStepType[k])) = 1
        /\ call.first # NULL => call.first = FirstMissing(pre.steps)
        /\ (~HasStep(pre.steps, call.prev_failed) /\ call.first # NULL) =>
              call.first = call.prev_failed
        /\ (~HasStep(pre.steps, call.prev_failed) /\ ExecuteEnded) =>
              call.first = call.prev_failed

\* C7 witness: an execute that failed in the synthesizer was followed by an
\* execute that ran the synthesizer first and succeeded.
C7_Witness ==
    /\ ExecuteEnded
    /\ call.prev_failed = "synthesizer"
    /\ call.first = "synthesizer"
    /\ last.result = "ok"

\* the exceptions a stage of the pipeline raises inside execute
StageExceptions(step_type) ==
    CASE step_type = "searcher" ->
            {<<"Transport", "search request failed">>}
      [] step_type = "reader" ->
            {<<"InvalidState", "No sources available to read.">>}
      [] step_type = "synthesizer" ->
            {<<"InvalidState", "No sources available for synthesis.">>,
             <<"InvalidState", "LLM client unavailable">>,
             <<"Transport", "LLM request failed">>}

\* the stage types of the pipeline before step_type
Before(step_type) ==
    CASE step_type = "searcher" -> {}
      [] step_type = "reader" -> {"searcher"}
      [] step_type = "synthesizer" -> {"searcher", "reader"}

\* C9: when a stage raises inside execute, the run ends with status failed
\* and the exception's message as error_message, the last event is a failed
\* event, the exception raised to the caller is the one the stage raised, no
\* step of the raising stage's type is committed, the steps that existed and
\* the steps of the earlier stages are kept, and a stage that raised first
\* leaves steps and sources as they were.
C9_ExecuteFailure ==
    (ExecuteEnded /\ last.result # "ok") =>
        /\ run.status = FAILED
        /\ run.error_message = last.message
        /\ events[Len(events)].event_type = "failed"
        /\ events[Len(events)].error_message = last.message
        /\ call.failed # NULL
        /\ <<last.result, last.message>> \in StageExceptions(call.failed)
        /\ ~HasStep(steps, call.failed)
        /\ SubSeq(steps, 1, Len(pre.steps)) = pre.steps
        /\ \A t \in Before(call.failed) : HasStep(steps, t)
        /\ call.first = call.failed => (steps = pre.steps /\ sources = pre.sources)

\* C9 witness: the LLM request failed after this execute had committed the
\* search and the reader.
C9_Witness ==
    /\ ExecuteEnded
    /\ last.result = "Transport"
    /\ call.failed = "synthesizer"
    /\ Len(steps) = Len(pre.steps) + 2

\* the step type a stage entry point commits
Own(op) ==
    IF op \in {"run_dummy_search", "run_web_search"} THEN "searcher"
    ELSE IF op \in {"run_dummy_reader", "run_web_reader"} THEN "reader"
    ELSE "synthesizer"

\* the step type a stage entry point requires
Required(op) ==
    IF op \in {"run_dummy_search", "run_web_search"} THEN "planner"
    ELSE IF op \in {"run_dummy_reader", "run_web_reader"} THEN "searcher"
    ELSE "reader"

\* C10: a stage entry point just called on an existing run that had no step of
\* the required predecessor type, or already had a step of the stage's own
\* type, has raised InvalidState; a search on a run that had a searcher step
\* has raised it with 'Search has already been run for this research run.'
C10_StagePreconditions ==
    (call.pc = "idle" /\ last.op \in StageOps /\ pre.run.exists) =>
        /\ (~HasStep(pre.steps, Required(last.op)) \/ HasStep(pre.steps, Own(last.op)))
              => last.result = "InvalidState"
        /\ (Own(last.op) = "searcher" /\ HasStep(pre.steps, "searcher"))
              => last.message = "Search has already been run for this research run."

\* C10 witness: a dummy search was rejected on a run that an execute had
\* completed.
C10_Witness ==
    /\ call.pc = "idle"
    /\ last.op = "run_dummy_search"
    /\ last.result = "InvalidState"
    /\ last.message = "Search has already been run for this research run."
    /\ HasCompletedEvent(events)

\* the run is completed and has a step of each of the four stage types
Converged == run.status = COMPLETED /\ AllStages

\* the search has been committed and stored no Source
SearchFoundNothing == HasStep(steps, "searcher") /\ sources = <<>>

StartedWithoutSources ==
    /\ ExecuteEnded
    /\ HasStep(pre.steps, "searcher")
    /\ pre.sources = <<>>
    /\ \/ call.mode = "real" /\ ~HasStep(pre.steps, "synthesizer")
       \/ call.mode = "dummy" /\ ~HasStep(pre.steps, "reader")

StepInserted(step_type) ==
    /\ Len(steps') = Len(steps) + 1
    /\ steps'[Len(steps')].step_type = step_type

\* C11 as stated: once the status of the run is failed, no step of an execute
\* call or of a stage entry point changes it.
C11_FailedIsTerminal == [][run.status = FAILED => run'.status = FAILED]_vars

\* C11, amended: a failed status is left only by a commit that inserts the
\* synthesizer step, which sets it to completed; no searcher commit, reader
\* commit or event commit changes it, and it never becomes pending or running.
C11_FailedUntilSynthesizerCommit ==
    [][run.status = FAILED =>
          \/ run'.status = FAILED
          \/ run'.status = COMPLETED /\ StepInserted("synthesizer")]_vars

\* a direct synthesizer call on a failed run has completed it
C11_Witness ==
    /\ call.pc = "idle"
    /\ last.op = "run_llm_synthesis" /\ last.result = "ok"
    /\ pre.run.status = FAILED
    /\ run.status = COMPLETED

\* C12: a searcher, reader or synthesizer commit made while the run is pending
\* leaves the run running (completed for the synthesizer), never pending.
C12_PendingLeftOnCommit ==
    [][\A k \in 2..4 :
          (run.exists /\ run.status = PENDING /\ StepInserted(ResearchStepType[k]))
              => run'.status = (IF ResearchStepType[k] = "synthesizer"
                                THEN COMPLETED ELSE RUNNING)]_vars

\* the real search has committed on a pending run
C12_Witness ==
    /\ call.pc = "idle"
    /\ last.op = "run_web_search" /\ last.result = "ok"
    /\ pre.run.status = PENDING
    /\ run.status = RUNNING

\* C13: the status becomes completed only in a commit that inserts a
\* synthesizer step, and that commit appends no event.
C13_CompletedOnlyBySynthesizerCommit ==
    [][(run.status # COMPLETED /\ run'.status = COMPLETED)
          => StepInserted("synthesizer") /\ events' = events]_vars

\* the dummy synthesizer has completed a running run
C13_Witness ==
    /\ call.pc = "idle"
    /\ last.op = "run_dummy_synthesis" /\ last.result = "ok"
    /\ pre.run.status = RUNNING
    /\ run.status = COMPLETED

\* C14: a direct call of a stage entry point, returning or raising, leaves the
\* events of the run as they were: whenever no execute is in progress and the
\* last call was not an execute, the events are those from before that call.
C14_OnlyExecuteAppendsEvents ==
    (call.pc = "idle" /\ last.op # "execute") => events = pre.events

\* a direct real search has raised on a run that already has events
C14_Witness ==
    /\ call.pc = "idle"
    /\ last.op = "run_web_search" /\ last.result # "ok"
    /\ pre.events # <<>>
    /\ events = pre.events

\* the run as create leaves it: pending, with the planner step at index 0 only
Fresh(snapshot) ==
    /\ snapshot.run.exists
    /\ snapshot.run.status = PENDING
    /\ snapshot.steps = <<ResearchStep(0, "planner", COMPLETED)>>

\* C18: a dummy execute on a freshly created run ends with status completed,
\* four steps planner, searcher, reader, synthesizer at indices 0, 1, 2, 3,
\* three Sources each with a summary, and the two events started(dummy) and
\* completed(dummy).
C18_DummyExecuteOnFreshRun ==
    (ExecuteEnded /\ call.mode = "dummy" /\ Fresh(pre)) =>
        /\ last.result = "ok"
        /\ run.status = COMPLETED
        /\ Len(steps) = 4
        /\ \A k \in 1..4 : /\ steps[k].step_index = k - 1
                           /\ steps[k].step_type = ResearchStepType[k]
        /\ Len(sources) = 3
        /\ \A i \in DOMAIN sources : sources[i].summary # NULL
        /\ Len(events) = 2
        /\ events[1].event_type = "started" /\ events[1].mode = "dummy"
        /\ events[2].event_type = "completed" /\ events[2].mode = "dummy"

\* a dummy execute on a fresh run has ended
C18_Witness == ExecuteEnded /\ call.mode = "dummy" /\ Fresh(pre)

\* the error text the reader is to record for an exception of one URL
ErrorText(exc) ==
    CASE exc.class = "UnsafeUrlError" -> "Private/local IP URLs are not allowed."
      [] exc.class \in {"httpx.HTTPError", "ValueError"} -> exc.message
      [] OTHER -> "Unexpected error: " \o exc.message

\* the positions of output.failed that record the URL
FailedEntries(output, url) ==
    {k \in DOMAIN output.failed : output.failed[k].url = url}

\* C15: whatever the outcomes of the URLs of a real reader call are, the call
\* returns and its step is committed with status completed; output.failed has
\* one entry for each failing URL, with the error text of its exception, and
\* none for a URL that was read; read_count is the number of URLs read, and
\* only those rows have their content set.
C15_ReaderRecordsUrlErrors ==
    reader.pc = "done" =>
        /\ last.op = "run_web_reader" /\ last.result = "ok"
        /\ steps[Len(steps)].step_type = "reader"
        /\ steps[Len(steps)].status = COMPLETED
        /\ LET output == steps[Len(steps)].output
               read == {i \in reader.to_read : reader.fetched[i] = Fetched}
           IN  /\ output.attempted = Cardinality(reader.to_read)
               /\ output.read_count = Cardinality(read)
               /\ output.failed_count = Cardinality(reader.to_read \ read)
               /\ Len(output.failed) = output.failed_count
               /\ \A i \in read :
                     /\ FailedEntries(output, i) = {}
                     /\ sources[i].raw_content # NULL
               /\ \A i \in reader.to_read \ read :
                     /\ \E k \in DOMAIN output.failed :
                           /\ FailedEntries(output, i) = {k}
                           /\ output.failed[k].error = ErrorText(reader.fetched[i])
                     /\ sources[i] = pre.sources[i]

\* a reader call has returned after one URL was read and four failed, each
\* in another way
C15_Witness ==
    /\ reader.pc = "done"
    /\ \E i \in reader.to_read : reader.fetched[i] = Fetched
    /\ \A exc \in FetchExceptions \ {[class |-> "RuntimeError", message |-> "boom"]} :
          \E i \in reader.to_read : reader.fetched[i] = exc

\* C16: at every moment of a real reader call at most 4 of its tasks are
\* between entering the semaphore and leaving it.
C16_AtMostFourFetches == Cardinality(InFlight(reader)) <= 4

\* four fetches are in flight and a fifth task waits for a place
C16_Witness ==
    /\ Cardinality(InFlight(reader)) = 4
    /\ \E i \in reader.to_read : reader.task[i] = "waiting"

\* C17: with invocations running concurrently on the run, each with its own
\* session, no two committed steps of the run have the same step_type.
C17_NoDuplicateStepUnderConcurrency ==
    \A i, j \in DOMAIN steps :
        steps[i].step_type = steps[j].step_type => i = j

\* the output of the synthesizer step a finished run_llm_synthesis committed
CommittedOutput == steps[Len(steps)].output

\* C19: when the completion is not JSON or is not valid for the schema, the
\* real synthesizer returns: its step is committed with the summary, the empty
\* key points, the one risk and the recommendation of the degraded payload, a
\* confidence of at most 0.2 and a _meta.parse_error that is not null, and the
\* run is completed.
C19_DegradedPayloadOnParseFailure ==
    (/\ synthesis.pc = "done"
     /\ \/ ~synthesis.raw_completion.json
        \/ ~SynthesisOutput_model_validate(synthesis.raw_completion.object[1]))
    =>
        /\ last.op = "run_llm_synthesis" /\ last.result = "ok"
        /\ Len(steps) = Len(pre.steps) + 1
        /\ steps[Len(steps)].step_type = "synthesizer"
        /\ IF synthesis.raw_completion.json
           THEN /\ CommittedOutput.summary = "Model output did not match required schema."
                /\ CommittedOutput.recommendation =
                      "Try running synthesis again or refine the prompt/schema."
           ELSE /\ CommittedOutput.summary = "Failed to parse model output as JSON."
                /\ CommittedOutput.recommendation =
                      "Try running synthesis again or adjust prompt constraints."
        /\ CommittedOutput.key_points = <<>>
        /\ Len(CommittedOutput.risks) = 1
        /\ CommittedOutput.confidence <= 2
        /\ CommittedOutput._meta.parse_error # NULL
        /\ run.status = COMPLETED

\* a completion that is JSON but not valid for the schema has been
\* synthesized on a run with three sources
C19_Witness ==
    /\ synthesis.pc = "done"
    /\ synthesis.raw_completion.json
    /\ ~SynthesisOutput_model_validate(synthesis.raw_completion.object[1])
    /\ Len(sources) = 3

\* the entries of the output without a marker, as (list, position from 0)
UncitedEntries(output) ==
    {[list |-> "key_points", idx |-> i - 1] :
        i \in {k \in DOMAIN output.key_points : output.key_points[k] = {}}}
    \cup
    {[list |-> "risks", idx |-> i - 1] :
        i \in {k \in DOMAIN output.risks : output.risks[k] = {}}}

\* C20: when a key point or a risk of the output has no marker, the output has
\* one missing_citations warning, its fields are exactly the entries without
\* a marker, each once, those of key_points before those of risks, and the
\* confidence of the output is at most 0.3 whatever the coverage check did.
C20_MissingCitationsCap ==
    (synthesis.pc = "done" /\ last.result = "ok"
        /\ UncitedEntries(CommittedOutput) # {})
    =>
        /\ "_warnings" \in DOMAIN CommittedOutput
        /\ \E w \in DOMAIN CommittedOutput._warnings :
              LET warning == CommittedOutput._warnings[w] IN
              /\ warning.type = "missing_citations"
              /\ \A x \in DOMAIN CommittedOutput._warnings :
                    CommittedOutput._warnings[x].type = "missing_citations" => x = w
              /\ {warning.fields[k] : k \in DOMAIN warning.fields}
                    = UncitedEntries(CommittedOutput)
              /\ Len(warning.fields) = Cardinality(UncitedEntries(CommittedOutput))
              /\ \A k, l \in DOMAIN warning.fields :
                    (warning.fields[k].list = "key_points"
                        /\ warning.fields[l].list = "risks") => k < l
        /\ CommittedOutput.confidence <= 3

\* a valid completion with confidence 1.0, a key point and a risk without a
\* marker and low coverage of three sources has been synthesized
C20_Witness ==
    /\ synthesis.pc = "done"
    /\ synthesis.raw_completion.json
    /\ SynthesisOutput_model_validate(synthesis.raw_completion.object[1])
    /\ synthesis.raw_completion.object[1].confidence = 10
    /\ \E e \in UncitedEntries(CommittedOutput) : e.list = "key_points"
    /\ \E e \in UncitedEntries(CommittedOutput) : e.list = "risks"
    /\ Len(CommittedOutput._warnings) = 2

\* ============================================================ web fetcher
\* One Source on its way through one reader: web_fetcher.fetch_html as
\* read_one calls it, request by request, or the dummy reader's stamping.
\* Texts are their lengths; a URL is what urlparse makes of it.

\* bound: the redirect responses one fetch is sent
MaxRedirects == 2

\* web_fetcher._MAX_BYTES
_MAX_BYTES == 1000000

\* src.raw_content = cleaned[:20_000]
RawContentMax == 20000

\* src.summary = basic_summary(cleaned, max_chars=900)
SummaryMax == 900

\* len("This is dummy fetched content for source: . It simulates the full
\* text content retrieved from the web.")
DummyContentFixed == 102

\* len("Summary for . This represents a condensed version of the source
\* content.")
DummySummaryFixed == 72

\* urlparse(url): scheme, netloc and hostname ("http://:80/" has a netloc
\* and no hostname)
Url(scheme, netloc, hostname) ==
    [scheme |-> scheme, netloc |-> netloc, hostname |-> hostname]

Schemes == {"http", "https", "ftp"}

Hostnames == {"example.com", "localhost", "93.184.216.34", "10.0.0.1",
              "127.0.0.1", "169.254.169.254", "240.0.0.1", "224.0.0.1"}

Urls ==
    {Url(scheme, h, Some(h)) : scheme \in Schemes, h \in Hostnames}
    \cup {Url(scheme, n, None) : scheme \in Schemes, n \in {"", ":80"}}

\* ipaddress.ip_address(host) and the properties _is_private_or_local_ip
\* reads; None is the ValueError of a host that is no IP literal
ip_address(host) ==
    LET ip(private, loopback, link_local, reserved, multicast) ==
            Some([is_private |-> private, is_loopback |-> loopback,
                  is_link_local |-> link_local, is_reserved |-> reserved,
                  is_multicast |-> multicast])
    IN  CASE host = "93.184.216.34"   -> ip(FALSE, FALSE, FALSE, FALSE, FALSE)
          [] host = "10.0.0.1"        -> ip(TRUE, FALSE, FALSE, FALSE, FALSE)
          [] host = "127.0.0.1"       -> ip(TRUE, TRUE, FALSE, FALSE, FALSE)
          [] host = "169.254.169.254" -> ip(TRUE, FALSE, TRUE, FALSE, FALSE)
          [] host = "240.0.0.1"       -> ip(TRUE, FALSE, FALSE, TRUE, FALSE)
          [] host = "224.0.0.1"       -> ip(FALSE, FALSE, FALSE, FALSE, TRUE)
          [] OTHER                    -> None

_is_private_or_local_ip(host) ==
    LET parsed == ip_address(host)
    IN  IF parsed = None THEN FALSE
        ELSE LET ip == parsed[1]
             IN  \/ ip.is_private
                 \/ ip.is_loopback
                 \/ ip.is_link_local
                 \/ ip.is_reserved
                 \/ ip.is_multicast

UnsafeUrlError(message) == [class |-> "UnsafeUrlError", message |-> message]

\* _validate_url: the UnsafeUrlError it raises, or Fetched when it returns
_validate_url(url) ==
    LET host == IF url.hostname = None THEN "" ELSE url.hostname[1]
    IN  IF url.scheme \notin {"http", "https"}
        THEN UnsafeUrlError("Only http/https URLs are allowed.")
        ELSE IF url.netloc = ""
        THEN UnsafeUrlError("URL must include a hostname.")
        ELSE IF host \in {"localhost"}
        THEN UnsafeUrlError("Localhost URLs are not allowed.")
        ELSE IF _is_private_or_local_ip(host)
        THEN UnsafeUrlError("Private/local IP URLs are not allowed.")
        ELSE Fetched

\* an extracted text: its length and the positions of its spaces that
\* matter (extract_text_from_html leaves single spaces, none at the ends)
Text(len, spaces) == [len |-> len, spaces |-> spaces]

ExtractedTexts ==
    {Text(len, {}) : len \in {0, 1, SummaryMax, SummaryMax + 1,
                              RawContentMax, RawContentMax + 1}}
    \cup {Text(len, {SummaryMax}) : len \in {SummaryMax + 1, RawContentMax + 1}}

\* basic_summary: text[:max_chars].strip()
basic_summary(text, max_chars) ==
    IF text.len = 0 THEN 0
    ELSE IF text.len > max_chars /\ max_chars \in text.spaces
    THEN max_chars - 1
    ELSE Min(text.len, max_chars)

\* what a server answers to one request: a redirect, an error status, or a
\* page streamed in chunks of so many bytes, holding a text
Response(status, location, chunks, text) ==
    [status |-> status, location |-> location, chunks |-> chunks, text |-> text]

Redirect(url) == Response("redirect", Some(url), <<>>, Text(0, {}))

\* if total > _MAX_BYTES
\* mutant: the test that also refuses a body of exactly _MAX_BYTES
too_large_at_limit(total) == total >= _MAX_BYTES

too_large(total) == total > _MAX_BYTES

\* the loop over resp.aiter_bytes(): the total after the last chunk taken,
\* and whether the loop raised there
RECURSIVE aiter_bytes(_, _)
aiter_bytes(chunks, total) ==
    IF chunks = <<>> THEN [total |-> total, too_large |-> FALSE]
    ELSE IF Head(chunks) = 0 THEN aiter_bytes(Tail(chunks), total)
    ELSE IF too_large(total + Head(chunks))
    THEN [total |-> total + Head(chunks), too_large |-> TRUE]
    ELSE aiter_bytes(Tail(chunks), total + Head(chunks))

\* the bodies a server streams: up to _MAX_BYTES in all, or more
SmallBodies == {<<_MAX_BYTES>>, <<_MAX_BYTES - 1, 0, 1>>}

LargeBodies == {<<_MAX_BYTES + 1>>, <<_MAX_BYTES - 1, 2>>, <<1, _MAX_BYTES, 5>>}

RedirectTargets ==
    {Url("http", "example.com", Some("example.com")),
     Url("https", "127.0.0.1", Some("127.0.0.1")),
     Url("http", "localhost", Some("localhost")),
     Url("ftp", "example.com", Some("example.com"))}

Responses ==
    {Response("ok", None, body, text) : body \in SmallBodies, text \in ExtractedTexts}
    \cup {Response("ok", None, body, Text(1, {})) : body \in LargeBodies}
    \cup {Response("error", None, <<>>, Text(0, {}))}
    \cup {Redirect(url) : url \in RedirectTargets}

\* the Sources a searcher leaves: the dummy searcher's have a fixed title,
\* the web searcher's the anchor's text and href, of any length
TitleLens == {0, 52, SummaryMax - DummySummaryFixed,
              SummaryMax - DummySummaryFixed + 1}

UrlLens == {40, SummaryMax - DummySummaryFixed + 1}

SearchedSources ==
    {[url |-> u, url_len |-> ul, title_len |-> tl,
      raw_content |-> None, summary |-> None] :
        u \in Urls, ul \in UrlLens, tl \in TitleLens}

InitFetch ==
    /\ run = [exists |-> TRUE, status |-> RUNNING, error_message |-> NULL]
    /\ steps = [j \in 1..2 |-> ResearchStep(j - 1, ResearchStepType[j], COMPLETED)]
    /\ sources = <<>>
    /\ events = <<>>
    /\ clock = 0
    /\ call = [pc |-> "idle", mode |-> "real", started_at |-> 0, stage |-> NULL,
               first |-> NULL, failed |-> NULL, prev_failed |-> NULL]
    /\ last = [op |-> "run_web_search", result |-> "ok", message |-> NULL]
    /\ pre = Snapshot
    /\ faults = 0
    /\ reader = ReaderIdle
    /\ sessions = NoSessions
    /\ synthesis = NoSynthesis
    /\ view = NoView
    /\ stamps = NoStamps
    /\ executes = NoExecutes
    /\ \E src \in SearchedSources :
          fetcher = [pc |-> "start", src |-> src, url |-> src.url,
                     requested |-> <<>>, redirects |-> 0, body |-> None,
                     error |-> Fetched, failed |-> <<>>]

\* run_dummy_reader's loop body: both texts are built around the title, or
\* around the url when the title is empty
DummyStamp ==
    /\ fetcher.pc = "start"
    /\ LET named == IF fetcher.src.title_len # 0 THEN fetcher.src.title_len
                    ELSE fetcher.src.url_len
       IN  fetcher' = [fetcher EXCEPT
                          !.pc = "stamped",
                          !.src.raw_content = Some(DummyContentFixed + named),
                          !.src.summary = Some(DummySummaryFixed + named)]
    /\ UNCHANGED <<run, steps, sources, events, clock, call, last, pre, faults,
                   reader, sessions, synthesis, view, stamps, executes>>

\* read_one's try has raised exc: the entry appended to failed, the Source
\* left as it was
ReadOneRaised(f, exc) ==
    [f EXCEPT !.pc = "raised", !.error = exc,
              !.failed = Append(@, read_one_except(f.src.url, exc))]

\* fetch_html up to the request: _validate_url raises or lets the url through
FetchValidate ==
    /\ fetcher.pc = "start"
    /\ LET exc == _validate_url(fetcher.src.url)
       IN  fetcher' = IF exc # Fetched
                      THEN ReadOneRaised(fetcher, exc)
                      ELSE [fetcher EXCEPT !.pc = "send"]
    /\ UNCHANGED <<run, steps, sources, events, clock, call, last, pre, faults,
                   reader, sessions, synthesis, view, stamps, executes>>

\* client.stream("GET", url), and the client following a redirect: a url
\* the client cannot connect to (no http/https scheme, no host) raises in
\* the client, any other is requested
FetchSend ==
    /\ fetcher.pc = "send"
    /\ fetcher' =
          IF fetcher.url.scheme \notin {"http", "https"} \/ fetcher.url.hostname = None
          THEN ReadOneRaised(fetcher, [class |-> "httpx.HTTPError",
                                       message |-> "UnsupportedProtocol"])
          ELSE [fetcher EXCEPT !.pc = "sent",
                               !.requested = Append(@, fetcher.url)]
    /\ UNCHANGED <<run, steps, sources, events, clock, call, last, pre, faults,
                   reader, sessions, synthesis, view, stamps, executes>>

\* the response to the request: follow_redirects=True sends the client to
\* the Location; raise_for_status; the size cap; then read_one's lines on
\* the extracted text
FetchReceive(response) ==
    /\ fetcher.pc = "sent"
    /\ response.status = "redirect" => fetcher.redirects < MaxRedirects
    /\ fetcher' =
          CASE response.status = "redirect" ->
                   [fetcher EXCEPT !.pc = "send", !.url = response.location[1],
                                   !.redirects = @ + 1]
            [] response.status = "error" ->
                   ReadOneRaised(fetcher, [class |-> "httpx.HTTPError",
                                           message |-> "HTTPStatusError"])
            [] OTHER ->
                   IF aiter_bytes(response.chunks, 0).too_large
                   THEN ReadOneRaised([fetcher EXCEPT !.body = Some(response.chunks)],
                                      [class |-> "httpx.HTTPError",
                                       message |-> "Response too large"])
                   ELSE IF response.text.len = 0
                   THEN ReadOneRaised([fetcher EXCEPT !.body = Some(response.chunks)],
                                      [class |-> "ValueError",
                                       message |-> "Empty extracted text"])
                   ELSE [fetcher EXCEPT
                            !.pc = "read",
                            !.body = Some(response.chunks),
                            !.src.raw_content =
                                Some(Min(response.text.len, RawContentMax)),
                            !.src.summary =
                                Some(basic_summary(response.text, SummaryMax))]
    /\ UNCHANGED <<run, steps, sources, events, clock, call, last, pre, faults,
                   reader, sessions, synthesis, view, stamps, executes>>

NextFetch ==
    \/ DummyStamp
    \/ FetchValidate
    \/ FetchSend
    \/ \E response \in Responses : FetchReceive(response)

SpecFetch == InitFetch /\ [][NextFetch]_vars

\* ------------------------------------------------------------ properties
\* the hosts the claim rules out as IP literals: private, loopback,
\* link-local, reserved, multicast
LocalAddresses ==
    {"10.0.0.1", "127.0.0.1", "169.254.169.254", "240.0.0.1", "224.0.0.1"}

SafeUrl(url) ==
    /\ url.scheme \in {"http", "https"}
    /\ url.hostname # None
    /\ url.hostname[1] \notin {"", "localhost"} \cup LocalAddresses

\* C21: every URL the fetcher requests over the network has scheme http or
\* https and a non-empty host that is neither localhost nor a private,
\* loopback, link-local, reserved or multicast IP literal; and a fetch of a
\* URL that is not so raises UnsafeUrlError with no request sent.
C21_FetcherRequestsOnlySafeUrls ==
    /\ \A i \in DOMAIN fetcher.requested : SafeUrl(fetcher.requested[i])
    /\ (fetcher.pc \notin {"start", "stamped"} /\ ~SafeUrl(fetcher.src.url))
          => /\ fetcher.pc = "raised"
             /\ fetcher.error.class = "UnsafeUrlError"
             /\ fetcher.requested = <<>>

\* C22: every Source whose raw_content and summary a reader has written, the
\* real one or the dummy one, on a Source of either searcher, has at most
\* 20,000 characters of raw_content and at most 900 of summary.
C22_ReaderTextsBounded ==
    fetcher.pc \in {"read", "stamped"}
        => /\ fetcher.src.raw_content # None
           /\ fetcher.src.raw_content[1] <= RawContentMax
           /\ fetcher.src.summary # None
           /\ fetcher.src.summary[1] <= SummaryMax

Rejected(r) == r.result = "InvalidState"

\* C23: in every state of a run, each dummy stage is refused with
\* InvalidState exactly when its real twin, with collaborators that work,
\* would be refused with InvalidState in that state.
C23_TwinsRejectAlike ==
    /\ \A page \in Pages :
          Rejected(run_dummy_search(DB))
              <=> Rejected(run_web_search(DB, SearchLimit, page))
    /\ \A fetch \in [DOMAIN sources -> FetchOutcomes] :
          Rejected(run_dummy_reader(DB))
              <=> Rejected(run_web_reader(DB, ReaderLimit, fetch))
    /\ \A llm \in {"json", "not_json"} :
          Rejected(run_dummy_synthesis(DB))
              <=> Rejected(run_llm_synthesis(DB, llm))

\* ========================================================= state projector
\* get_run_state as a function of the rows it loads

\* bound: the research_steps rows of the run
MaxRows == 3

\* str.strip on the summaries of the model
strip(s) == IF s \in {"", " ", "  "} THEN "" ELSE s

Summaries == <<NULL, " ", "summary">>

\* sorted(run.steps, key=lambda s: s.step_index), which is stable
RECURSIVE sorted_by_step_index(_)
sorted_by_step_index(ss) ==
    IF ss = <<>> THEN <<>>
    ELSE LET rest == sorted_by_step_index(Tail(ss))
             k == Cardinality({i \in DOMAIN rest :
                                  rest[i].step_index < Head(ss).step_index})
         IN  SubSeq(rest, 1, k) \o <<Head(ss)>> \o SubSeq(rest, k + 1, Len(rest))

\* ResearchRun.steps as the relationship loads it: order_by step_index, two
\* rows of equal step_index in either order
LoadedSteps(ss) ==
    {sorted_by_step_index(ss),
     sorted_by_step_index([i \in DOMAIN ss |-> ss[Len(ss) + 1 - i]])}

\* mutant: the first step of a type stays
latest_by_type_first(ordered, step_type) ==
    LET of_type == {i \in DOMAIN ordered : ordered[i].step_type = step_type}
    IN  IF of_type = {} THEN None
        ELSE Some(ordered[CHOOSE i \in of_type : \A j \in of_type : i <= j])

\* latest_by_type[step.step_type] = step, in sorted order: the last one stays
latest_by_type(ordered, step_type) ==
    LET of_type == {i \in DOMAIN ordered : ordered[i].step_type = step_type}
    IN  IF of_type = {} THEN None ELSE Some(ordered[SetMax(of_type)])

get_run_state(db, loaded) ==
    IF ~db.run.exists THEN [result |-> "NotFound", state |-> None]
    ELSE LET latest(t) == latest_by_type(sorted_by_step_index(loaded), t)
         IN  [result |-> "ok",
              state |-> Some(
                 [status |-> db.run.status,
                  steps |-> [t \in {ResearchStepType[j] : j \in 1..4} |->
                                IF latest(t) = None THEN PENDING
                                ELSE latest(t)[1].status],
                  source_count |-> Len(db.sources),
                  sources_with_summary |->
                      Cardinality({i \in DOMAIN db.sources :
                          strip(IF db.sources[i].summary = NULL THEN ""
                                ELSE db.sources[i].summary) # ""})])]

\* the rows of a run: each step of any type, pending or completed, with its
\* place in the sequence as step_index, but for the first and the last row,
\* which may have each other's (equal and inverted indices come from
\* concurrent commits); the Sources with no, a blank or a real summary; or
\* no run at all
InitState ==
    /\ \E n \in 0..MaxRows, m \in 0..MaxResults, exists \in BOOLEAN :
       \E types \in [1..n -> 1..4], statuses \in [1..n -> {PENDING, COMPLETED}],
          swapped \in [{1, n} \cap (1..n) -> BOOLEAN],
          summaries \in [1..m -> 1..3] :
          /\ \A i, j \in 1..m : i < j => summaries[i] <= summaries[j]
          /\ ~exists => n = 0 /\ m = 0
          /\ run = [exists |-> exists, status |-> IF n < 2 THEN PENDING ELSE RUNNING,
                    error_message |-> NULL]
          /\ steps = [i \in 1..n |->
                        ResearchStep(IF i \in DOMAIN swapped /\ swapped[i]
                                     THEN n - i ELSE i - 1,
                                     ResearchStepType[types[i]], statuses[i])]
          /\ sources = [i \in 1..m |->
                          [url |-> Href(i), raw_content |-> NULL,
                           summary |-> Summaries[summaries[i]]]]
    /\ events = <<>>
    /\ clock = 0
    /\ call = [pc |-> "idle", mode |-> "real", started_at |-> 0, stage |-> NULL,
               first |-> NULL, failed |-> NULL, prev_failed |-> NULL]
    /\ last = [op |-> "create", result |-> "ok", message |-> NULL]
    /\ pre = Snapshot
    /\ faults = 0
    /\ reader = ReaderIdle
    /\ sessions = NoSessions
    /\ synthesis = NoSynthesis
    /\ fetcher = NoFetch
    /\ stamps = NoStamps
    /\ executes = NoExecutes
    /\ view = [pc |-> "asked", loaded |-> <<>>, answer |-> None]

\* GET /research-runs/{run_id}/state: the rows are loaded, the answer is
\* built from them, nothing is written
GetRunState ==
    /\ view.pc = "asked"
    /\ \E loaded \in LoadedSteps(steps) :
          view' = [pc |-> "answered", loaded |-> loaded,
                   answer |-> get_run_state(DB, loaded).state]
    /\ UNCHANGED <<run, steps, sources, events, clock, call, last, pre, faults,
                   reader, sessions, synthesis, fetcher, stamps, executes>>

NextState == GetRunState

SpecState == InitState /\ [][NextState]_vars

\* ------------------------------------------------------------ properties
\* a summary that is absent or holds only white space
Blank(summary) == summary \in {NULL, "", " ", "  "}

\* the statuses of the steps of a type that no step of the type is above
HighestOfType(ss, step_type) ==
    {ss[i].status : i \in {i \in DOMAIN ss :
        /\ ss[i].step_type = step_type
        /\ \A j \in DOMAIN ss :
              ss[j].step_type = step_type => ss[j].step_index <= ss[i].step_index}}

\* C24: the answer of get_run_state gives, for each of the four stage types,
\* the status of the step of that type with the highest step_index, or
\* pending when the run has no step of the type; source_count is the number
\* of the run's Sources and sources_with_summary the number of those whose
\* summary is not blank; and no row has changed.
C24_StateProjection ==
    view.pc = "answered"
        => /\ Snapshot = pre
           /\ run.exists <=> view.answer # None
           /\ run.exists =>
                 LET state == view.answer[1] IN
                 /\ state.status = run.status
                 /\ DOMAIN state.steps = {"planner", "searcher", "reader", "synthesizer"}
                 /\ \A t \in DOMAIN state.steps :
                       IF HasStep(steps, t)
                       THEN state.steps[t] \in HighestOfType(steps, t)
                       ELSE state.steps[t] = PENDING
                 /\ state.source_count = Len(sources)
                 /\ state.sources_with_summary =
                       Cardinality({i \in DOMAIN sources : ~Blank(sources[i].summary)})

\* get_run_state has answered for a run with two steps of one type, the
\* later row with the lower step_index and another status, and with a
\* Source whose summary is blank and one whose summary is not
C24_Witness ==
    /\ view.pc = "answered"
    /\ \E i, j \in DOMAIN steps :
          /\ i < j
          /\ steps[i].step_type = steps[j].step_type
          /\ steps[i].step_index > steps[j].step_index
          /\ steps[i].status # steps[j].status
          /\ view.answer[1].steps[steps[i].step_type] = steps[i].status
    /\ \E i, j \in DOMAIN sources :
          sources[i].summary = " " /\ sources[j].summary = "summary"
    /\ view.answer[1].sources_with_summary = 1

\* C25: the _meta of the output of every synthesizer step the real
\* synthesizer commits holds the five keys raw_completion, parse_error,
\* source_count, unique_sources_cited and coverage_ratio.
C25_MetaHasCoverage ==
    (synthesis.pc = "done" /\ last.result = "ok")
        => /\ {"raw_completion", "parse_error", "source_count"}
                  \subseteq DOMAIN CommittedOutput._meta
           /\ DOMAIN payload_meta({}, Len(sources)) \subseteq DOMAIN CommittedOutput._meta

\* the distinct numbers n, 1 <= n <= source_count, that stand as [n] in a
\* key point or a risk of the output
Cited(output, source_count) ==
    {n \in 1..source_count :
        \E text \in {output.key_points[i] : i \in DOMAIN output.key_points}
                    \cup {output.risks[i] : i \in DOMAIN output.risks} :
            n \in text}

\* the low_source_coverage warnings of the output
CoverageWarnings(output) ==
    IF "_warnings" \notin DOMAIN output THEN {}
    ELSE {w \in DOMAIN output._warnings :
             output._warnings[w].type = "low_source_coverage"}

\* C28: the committed output has a low_source_coverage warning exactly when
\* there are at least three sources and the cited ones are less than 0.4 of
\* them, and then its confidence is at most 0.4.
C28_LowCoverageWarning ==
    (synthesis.pc = "done" /\ last.result = "ok")
        => LET source_count == Len(sources)
               cited == Cited(CommittedOutput, source_count)
               low == source_count >= 3 /\ 10 * Cardinality(cited) < 4 * source_count
           IN  /\ CoverageWarnings(CommittedOutput) # {} <=> low
               /\ Cardinality(CoverageWarnings(CommittedOutput)) <= 1
               /\ \A w \in CoverageWarnings(CommittedOutput) :
                     CommittedOutput._warnings[w].coverage_ratio
                         = <<Cardinality(cited), source_count>>
               /\ low => CommittedOutput.confidence <= 4

\* a valid completion with confidence 1.0 whose every entry has a marker but
\* which cites one of three sources, and a marker out of range, has been
\* synthesized: the warning is the only one and the confidence is 0.4
C28_Witness ==
    /\ synthesis.pc = "done"
    /\ last.result = "ok"
    /\ Len(sources) = 3
    /\ synthesis.raw_completion.json
    /\ SynthesisOutput_model_validate(synthesis.raw_completion.object[1])
    /\ synthesis.raw_completion.object[1].confidence = 10
    /\ UncitedEntries(CommittedOutput) = {}
    /\ \E i \in DOMAIN CommittedOutput.key_points : 0 \in CommittedOutput.key_points[i]
    /\ Cited(CommittedOutput, 3) = {1}
    /\ Len(CommittedOutput._warnings) = 1
    /\ CommittedOutput.confidence = 4

\* the last commit appended a failed event
FailedEventInserted ==
    /\ Len(events') = Len(events) + 1
    /\ events'[Len(events')].event_type = "failed"

\* C27 as claimed: the failed event of an execute call that raised has a
\* stage, and the stage names the stage that was active when the exception
\* was raised.
C27_FailedEventNamesStage ==
    (call.pc = "idle" /\ last.op = "execute" /\ last.result \notin {"ok", "NotFound"})
        => /\ events[Len(events)].event_type = "failed"
           /\ events[Len(events)].stage # NULL
           /\ events[Len(events)].stage = call.failed

\* C27, amended: a failed event is appended only by an execute call while one
\* of its stages is active; its stage is not null and names the pipeline of
\* the call's mode, whichever stage raised; and the commit that inserts it
\* holds nothing of the stage that raised: no step and no Source changes, the
\* run becomes failed, the earlier events stay.
C27_FailedEventAfterRollback ==
    [][FailedEventInserted =>
          /\ call.pc \in {"searcher", "reader", "synthesizer"}
          /\ call'.failed = call.pc
          /\ events'[Len(events')].stage # NULL
          /\ events'[Len(events')].stage
                = (IF call.mode = "dummy" THEN "execute_dummy_pipeline"
                   ELSE "execute_pipeline")
          /\ events'[Len(events')].mode = call.mode
          /\ steps' = steps
          /\ sources' = sources
          /\ run'.status = FAILED
          /\ SubSeq(events', 1, Len(events)) = events]_vars

\* a real execute has failed in its synthesizer after its searcher and its
\* reader committed: their steps stay, the event's stage is execute_pipeline
C27_Witness ==
    /\ call.pc = "idle"
    /\ last.op = "execute"
    /\ call.failed = "synthesizer"
    /\ call.mode = "real"
    /\ call.first = "searcher"
    /\ events[Len(events)].event_type = "failed"
    /\ events[Len(events)].stage = "execute_pipeline"
    /\ HasStep(steps, "reader")
    /\ ~HasStep(steps, "synthesizer")

\* the Source rows of the run, each by what identifies it
SourceRows(srcs) == [i \in DOMAIN srcs |-> srcs[i].url]

\* C30: the Source rows of a run change only in a commit that inserts a
\* searcher step, and then rows are added and none is deleted; a commit that
\* changes a field of a Source without inserting a searcher step is a reader
\* commit, and it changes only raw_content and summary; the commits of the
\* synthesizer and of execute's events, the failed one included, leave the
\* Sources as they are.
C30_SourcesChangeOnlyInSearch ==
    [][/\ SourceRows(sources') # SourceRows(sources)
            => /\ StepInserted("searcher")
               /\ Len(sources') > Len(sources)
               /\ SubSeq(sources', 1, Len(sources)) = sources
       /\ (sources' # sources /\ ~StepInserted("searcher"))
            => /\ StepInserted("reader")
               /\ \A i \in DOMAIN sources :
                     sources'[i] = [sources[i] EXCEPT
                                       !.raw_content = sources'[i].raw_content,
                                       !.summary = sources'[i].summary]
       /\ (StepInserted("synthesizer") \/ events' # events)
            => sources' = sources]_vars

\* a real reader has filled one Source and failed on another of the same
\* search, and the synthesizer has committed after it: the rows are those of
\* the search
C30_Witness ==
    /\ HasStep(steps, "synthesizer")
    /\ SourceRows(sources) = <<Href(1), Href(2)>>
    /\ sources[1].raw_content = "web_content"
    /\ sources[2].raw_content = NULL

\* the Sources without raw_content, and the first k of them
Unread(srcs) == {i \in DOMAIN srcs : srcs[i].raw_content = NULL}

FirstUnread(srcs, k) ==
    {i \in Unread(srcs) : Cardinality({j \in Unread(srcs) : j <= i}) <= k}

\* C29: with u Sources without raw_content and a limit, the real reader
\* attempts exactly the first min(limit, u) of them: no other Source gets a
\* task, and when the step is committed attempted is min(limit, u), every
\* attempted Source was fetched and every other Source is as it was; with
\* u = 0 the committed step is completed with attempted = 0.
C29_ReaderAttemptsFirstUnread ==
    LET before == pre.sources
        u == Cardinality(Unread(before))
        attempts == FirstUnread(before, Min(reader.limit, u))
    IN  /\ reader.pc = "gather"
            => /\ reader.to_read = attempts
               /\ DOMAIN reader.task = attempts
               /\ \A i \in DOMAIN before \ attempts : reader.sources[i] = before[i]
        /\ (reader.pc = "done" /\ last.result = "ok")
            => /\ Cardinality(attempts) = Min(reader.limit, u)
               /\ steps[Len(steps)].step_type = "reader"
               /\ steps[Len(steps)].status = COMPLETED
               /\ steps[Len(steps)].output.attempted = Min(reader.limit, u)
               /\ steps[Len(steps)].output.read_count
                     + steps[Len(steps)].output.failed_count = Min(reader.limit, u)
               /\ DOMAIN sources = DOMAIN before
               /\ \A i \in DOMAIN before \ attempts : sources[i] = before[i]
               /\ \A i \in DOMAIN before :
                     sources[i] # before[i] => i \in attempts
               /\ u = 0 => /\ sources = before
                           /\ steps[Len(steps)].output.attempted = 0

\* a reader called with limit 2 on a run with an unread Source, a read one and
\* three more unread ones has committed: it read the first and the third
\* Source and left the last two unread
C29_Witness ==
    /\ reader.pc = "done"
    /\ last.result = "ok"
    /\ reader.limit = 2
    /\ Len(sources) = 5
    /\ Unread(pre.sources) = {1, 3, 4, 5}
    /\ Unread(sources) = {4, 5}
    /\ steps[Len(steps)].output.attempted = 2

\* the rows a session has added or changed and not committed yet
Added(s) ==
    [steps |-> SubSeq(sessions[s].mine.steps, Len(sessions[s].seen.steps) + 1,
                      Len(sessions[s].mine.steps)),
     sources |-> SubSeq(sessions[s].mine.sources, Len(sessions[s].seen.sources) + 1,
                        Len(sessions[s].mine.sources)),
     filled |-> {i \in DOMAIN sessions[s].seen.sources :
                    sessions[s].mine.sources[i] # sessions[s].seen.sources[i]}]

\* C26: every change of the committed rows is the one commit of one stage
\* call, which inserts the step of the stage, the Sources it produced or
\* filled and the status it set together, whatever other calls are in
\* progress, have committed or were cancelled before their commit: so the
\* committed rows never hold a Source without a searcher step, rows are
\* added to the Sources only with a searcher step and then they are the
\* results of that search, a reader step comes with the Sources it filled,
\* and a synthesizer step comes with the status completed.
C26_StageCommitsAtOnce ==
    /\ [](sources # <<>> => HasStep(steps, "searcher"))
    /\ [][<<run, steps, sources>>' # <<run, steps, sources>>
            => \E s \in Sessions :
                  /\ sessions[s].pc = "commit"
                  /\ sessions'[s] = SessionIdle
                  /\ Len(Added(s).steps) = 1
                  /\ steps' = steps \o Added(s).steps
                  /\ Len(sources') = Len(sources) + Len(Added(s).sources)
                  /\ SubSeq(sources', Len(sources) + 1, Len(sources')) = Added(s).sources
                  /\ \A i \in Added(s).filled : sources'[i] = sessions[s].mine.sources[i]
                  /\ Len(sources') # Len(sources) => StepInserted("searcher")
                  /\ StepInserted("searcher") => run'.status # PENDING
                  /\ StepInserted("synthesizer") => run'.status = COMPLETED]_vars

\* a web search that was cancelled before its commit has left no row, and
\* the same search, called again, is about to commit its step and its two
\* Sources, none of them among the committed rows yet
C26_Witness ==
    /\ last.result = "Cancelled"
    /\ last.op = "run_web_search"
    /\ steps = <<ResearchStep(0, "planner", COMPLETED)>>
    /\ sources = <<>>
    /\ run.status = PENDING
    /\ sessions[1].pc = "commit"
    /\ sessions[1].op = "run_web_search"
    /\ SourceRows(Added(1).sources) = <<Href(1), Href(2)>>

\* ------------------------------------------- the timestamps of the step rows
\* ResearchStep.started_at / completed_at: nullable columns without a default
StepStamps(started_at, completed_at) ==
    [started_at |-> started_at, completed_at |-> completed_at]

\* a run as create leaves it; the timestamps of the seeded planner step are
\* set, or they are not
InitStamps ==
    /\ run = [exists |-> TRUE, status |-> ResearchRun_status_default,
              error_message |-> NULL]
    /\ steps = <<ResearchStep(0, "planner", COMPLETED)>>
    /\ sources = <<>>
    /\ events = <<>>
    /\ clock = 0
    /\ call = [pc |-> "idle", mode |-> "dummy", started_at |-> 0, stage |-> NULL,
               first |-> NULL, failed |-> NULL, prev_failed |-> NULL]
    /\ last = [op |-> "create", result |-> "ok", message |-> NULL]
    /\ pre = [run |-> run, steps |-> <<>>, sources |-> <<>>, events |-> <<>>]
    /\ faults = 0
    /\ reader = ReaderIdle
    /\ sessions = NoSessions
    /\ synthesis = NoSynthesis
    /\ fetcher = NoFetch
    /\ view = NoView
    /\ executes = NoExecutes
    /\ stamps \in {<<StepStamps(None, None)>>, <<StepStamps(Some(0), Some(0))>>}

\* time passes between two calls
Tick ==
    /\ clock < MaxClock
    /\ clock' = clock + 1
    /\ UNCHANGED <<run, steps, sources, events, call, last, pre, faults,
                   reader, sessions, synthesis, fetcher, view, stamps, executes>>

\* one call of a stage entry point that takes d ms from its first reading
\* of the clock to its commit, and gives its step the timestamps `stamp`
StampedCall(op, r, d, stamp) ==
    /\ clock + d <= MaxClock
    /\ clock' = clock + d
    /\ run' = r.db.run
    /\ steps' = r.db.steps
    /\ sources' = r.db.sources
    /\ stamps' = IF r.result = "ok" THEN Append(stamps, stamp) ELSE stamps
    /\ last' = [op |-> op, result |-> r.result, message |-> r.message]
    /\ pre' = Snapshot
    /\ UNCHANGED <<events, call, faults,
                   reader, sessions, synthesis, fetcher, view, executes>>

\* now = datetime.now(timezone.utc); started_at=now, completed_at=now
StampDummySearch ==
    StampedCall("run_dummy_search", run_dummy_search(DB), 0,
                StepStamps(Some(clock), Some(clock)))

\* the provider is asked before the clock is read
StampWebSearch ==
    \E page \in Pages :
        StampedCall("run_web_search", run_web_search(DB, SearchLimit, page), 0,
                    StepStamps(Some(clock), Some(clock)))

StampDummyReader ==
    StampedCall("run_dummy_reader", run_dummy_reader(DB), 0,
                StepStamps(Some(clock), Some(clock)))

\* started_at=now, read before the fetches;
\* completed_at=datetime.now(timezone.utc), read after them
StampWebReader ==
    \E fetch \in [DOMAIN sources -> FetchOutcomes], d \in 0..1 :
        StampedCall("run_web_reader", run_web_reader(DB, ReaderLimit, fetch), d,
                    StepStamps(Some(clock), Some(clock + d)))

StampDummySynthesis ==
    StampedCall("run_dummy_synthesis", run_dummy_synthesis(DB), 0,
                StepStamps(Some(clock), Some(clock)))

\* now is read before the completion is asked for, and is not used: the
\* step is built without started_at and completed_at
StampLlmSynthesis ==
    \E llm \in LLMs, d \in 0..1 :
        StampedCall("run_llm_synthesis", run_llm_synthesis(DB, llm), d,
                    StepStamps(None, None))

NextStamps ==
    \/ Tick
    \/ StampDummySearch
    \/ StampWebSearch
    \/ StampDummyReader
    \/ StampWebReader
    \/ StampDummySynthesis
    \/ StampLlmSynthesis

SpecStamps == InitStamps /\ [][NextStamps]_vars

\* C31: every step committed by a stage entry point (dummy or real searcher,
\* reader, synthesizer) has status completed, a started_at and a
\* completed_at, and started_at is not after completed_at.
C31_StageStepsCompletedAndStamped ==
    \A i \in DOMAIN steps :
        steps[i].step_type # "planner" =>
            /\ steps[i].status = COMPLETED
            /\ stamps[i].started_at # None
            /\ stamps[i].completed_at # None
            /\ stamps[i].started_at[1] <= stamps[i].completed_at[1]

\* the bytes of a body, whatever its chunks
RECURSIVE BodyBytes(_)
BodyBytes(chunks) ==
    IF chunks = <<>> THEN 0 ELSE Head(chunks) + BodyBytes(Tail(chunks))

TooLarge ==
    /\ fetcher.pc = "raised"
    /\ fetcher.error.message = "Response too large"

\* C32: a fetch is aborted with 'Response too large' exactly when the bytes
\* streamed for its body add up to more than 1,000,000 (a body of exactly
\* 1,000,000 bytes is accepted); read_one records the abort as the failure
\* of that URL and sets neither raw_content nor summary of the Source.
C32_TooLargeIsPerUrlFailure ==
    /\ fetcher.pc \in {"raised", "read"} /\ fetcher.body # None
          => (TooLarge <=> BodyBytes(fetcher.body[1]) > 1000000)
    /\ TooLarge
          => /\ fetcher.body # None
             /\ fetcher.failed = << [url |-> fetcher.src.url,
                                     error |-> "Response too large"] >>
             /\ fetcher.src.raw_content = None
             /\ fetcher.src.summary = None

C32_Witness ==
    /\ TooLarge
    /\ fetcher.body = Some(<<_MAX_BYTES - 1, 2>>)
    /\ Len(fetcher.failed) = 1

\* C33: the events of a run are only appended to: no step of an execute call
\* or of a stage call modifies or removes an event that is committed, and
\* the number of events never decreases.
C33_EventLogAppendOnly ==
    [][/\ Len(events') >= Len(events)
       /\ \A i \in DOMAIN events : events'[i] = events[i]]_vars

\* two executes have left their four events, and a stage call came after
C33_Witness ==
    /\ call.pc = "idle"
    /\ Len(events) = 4
    /\ events[2].event_type = "failed"
    /\ events[4].event_type = "completed"
    /\ last.op = "run_dummy_synthesis"
    /\ pre.events = events

\* C34: with stage invocations running concurrently on the run, no two
\* committed steps have the same step_index, and the index of each committed
\* step is one more than the highest index committed before it (the steps
\* are kept in the order of their commits).
C34_StepIndexUnderConcurrency ==
    /\ \A i, j \in DOMAIN steps :
           steps[i].step_index = steps[j].step_index => i = j
    /\ \A i \in DOMAIN steps :
           i > 1 => steps[i].step_index =
                       SetMax({steps[j].step_index : j \in 1..(i - 1)}) + 1

\* C35: the error_message that a failed execute has set stays set while the
\* status of the run stays as it is, is null after the next commit that
\* changes the status, and is null whenever the status is completed.
C35_ErrorMessageUntilStatusChange ==
    [][/\ (run.error_message # NULL /\ run'.status = run.status)
             => run'.error_message # NULL
       /\ (run.error_message # NULL /\ run'.status # run.status)
             => run'.error_message = NULL
       /\ run'.status = COMPLETED => run'.error_message = NULL]_vars

\* ------------------------------------ execute invocations running together
\* Two requests POST /execute on one run, each with the session get_db gives
\* it.  An invocation is followed from await to await: its queries see the
\* rows committed so far, its run object is the one its session has loaded.

\* the two invocations
Callers == {1, 2}

ExecuteIdle ==
    [pc |-> "idle", mode |-> "dummy", stage |-> NULL, cached |-> NULL,
     exc |-> NULL, seen |-> None, mine |-> None]

\* the entry point of a stage in a pipeline
StageOp(mode, step_type) ==
    CASE step_type = "searcher" ->
            (IF mode = "dummy" THEN "run_dummy_search" ELSE "run_web_search")
      [] step_type = "reader" ->
            (IF mode = "dummy" THEN "run_dummy_reader" ELSE "run_web_reader")
      [] step_type = "synthesizer" ->
            (IF mode = "dummy" THEN "run_dummy_synthesis" ELSE "run_llm_synthesis")

\* the rows a session works on: the committed steps and Sources, and the run
\* object of its identity map (expire_on_commit=False)
SessionDB(cached) ==
    [run |-> [run EXCEPT !.status = cached], steps |-> steps, sources |-> sources]

InitExecutes ==
    /\ run = [exists |-> TRUE, status |-> ResearchRun_status_default,
              error_message |-> NULL]
    /\ steps = <<ResearchStep(0, "planner", COMPLETED)>>
    /\ sources = <<>>
    /\ events = <<>>
    /\ clock = 0
    /\ call = [pc |-> "idle", mode |-> "dummy", started_at |-> 0, stage |-> NULL,
               first |-> NULL, failed |-> NULL, prev_failed |-> NULL]
    /\ last = [op |-> "create", result |-> "ok", message |-> NULL]
    /\ pre = Snapshot
    /\ faults = 0
    /\ reader = ReaderIdle
    /\ sessions = NoSessions
    /\ synthesis = NoSynthesis
    /\ fetcher = NoFetch
    /\ view = NoView
    /\ stamps = NoStamps
    /\ executes = [e \in Callers |-> ExecuteIdle]

\* execute up to the commit of its started event
RaceBegin(e, mode) ==
    /\ executes[e].pc = "idle"
    /\ events' = Append(events, PipelineEvent("started", mode, NULL, None, NULL))
    /\ executes' = [executes EXCEPT ![e] =
                       [ExecuteIdle EXCEPT !.pc = "check", !.mode = mode,
                                           !.stage = "searcher",
                                           !.cached = run.status]]
    /\ UNCHANGED <<run, steps, sources, clock, call, last, pre, faults,
                   reader, sessions, synthesis, fetcher, view, stamps>>

\* if not await self._has_step_type(run_id, ...), a query on committed rows
RaceCheck(e) ==
    /\ executes[e].pc = "check"
    /\ executes' = [executes EXCEPT ![e] =
                       IF stage_is_due(DB, executes[e].stage)
                       THEN [@ EXCEPT !.pc = "call"]
                       ELSE IF next_stage(executes[e].stage) = "complete"
                       THEN [@ EXCEPT !.pc = "complete"]
                       ELSE [@ EXCEPT !.stage = next_stage(@)]]
    /\ UNCHANGED <<run, steps, sources, events, clock, call, last, pre, faults,
                   reader, sessions, synthesis, fetcher, view, stamps>>

\* the stage entry point up to its commit: it raises into the except branch
\* of execute, or it goes on to its commit
RaceCall(e) ==
    /\ executes[e].pc = "call"
    /\ \E r \in StageResults(StageOp(executes[e].mode, executes[e].stage),
                             SessionDB(executes[e].cached)) :
          executes' = [executes EXCEPT ![e] =
                          IF r.result = "ok"
                          THEN [@ EXCEPT !.pc = "commit",
                                         !.seen = Some(SessionDB(executes[e].cached)),
                                         !.mine = Some(r.db)]
                          ELSE [@ EXCEPT !.pc = "except", !.exc = r.message]]
    /\ UNCHANGED <<run, steps, sources, events, clock, call, last, pre, faults,
                   reader, sessions, synthesis, fetcher, view, stamps>>

\* the commit of the stage and the refresh of the run object
RaceCommit(e) ==
    /\ executes[e].pc = "commit"
    /\ LET db == Flush(DB, executes[e].seen[1], executes[e].mine[1])
           after == next_stage(executes[e].stage)
       IN  /\ run' = db.run
           /\ steps' = db.steps
           /\ sources' = db.sources
           /\ executes' = [executes EXCEPT ![e] =
                              IF after = "complete"
                              THEN [@ EXCEPT !.pc = "complete",
                                             !.cached = db.run.status,
                                             !.seen = None, !.mine = None]
                              ELSE [@ EXCEPT !.pc = "check", !.stage = after,
                                             !.cached = db.run.status,
                                             !.seen = None, !.mine = None]]
    /\ UNCHANGED <<events, clock, call, last, pre, faults,
                   reader, sessions, synthesis, fetcher, view, stamps>>

\* the except branch of execute: rollback, the run loaded again and marked
\* failed, the failed event, one commit
RaceExcept(e) ==
    /\ executes[e].pc = "except"
    /\ run' = [run EXCEPT !.status = FAILED, !.error_message = executes[e].exc]
    /\ events' = Append(events,
                    PipelineEvent("failed", executes[e].mode,
                                  IF executes[e].mode = "dummy"
                                  THEN "execute_dummy_pipeline" ELSE "execute_pipeline",
                                  Some(0), executes[e].exc))
    /\ executes' = [executes EXCEPT ![e] = [@ EXCEPT !.pc = "raised",
                                                     !.cached = FAILED]]
    /\ UNCHANGED <<steps, sources, clock, call, last, pre, faults,
                   reader, sessions, synthesis, fetcher, view, stamps>>

\* the pipeline returned: the completed event is committed
RaceComplete(e) ==
    /\ executes[e].pc = "complete"
    /\ events' = Append(events,
                    PipelineEvent("completed", executes[e].mode,
                                  IF executes[e].mode = "dummy"
                                  THEN "execute_dummy_pipeline" ELSE "execute_pipeline",
                                  Some(0), NULL))
    /\ executes' = [executes EXCEPT ![e] = [@ EXCEPT !.pc = "returned"]]
    /\ UNCHANGED <<run, steps, sources, clock, call, last, pre, faults,
                   reader, sessions, synthesis, fetcher, view, stamps>>

NextExecutes ==
    \/ \E e \in Callers, mode \in Modes : RaceBegin(e, mode)
    \/ \E e \in Callers : RaceCheck(e)
    \/ \E e \in Callers : RaceCall(e)
    \/ \E e \in Callers : RaceCommit(e)
    \/ \E e \in Callers : RaceExcept(e)
    \/ \E e \in Callers : RaceComplete(e)

SpecExecutes == InitExecutes /\ [][NextExecutes]_vars

\* C36: with two execute calls running concurrently on the run, a status
\* that has become completed does not become failed afterwards.
C36_CompletedNeverFailsUnderConcurrency ==
    [][run.status = COMPLETED => run'.status # FAILED]_vars

\* the Sources whose raw_content the reader call has set
ReadByReader == {i \in DOMAIN sources :
                    pre.sources[i].raw_content = NULL /\ sources[i].raw_content # NULL}

\* C37: in whatever order the per-URL tasks of a real reader call take their
\* turns, the committed step output has attempted = read_count + failed_count,
\* read_count is the number of Sources whose raw_content the call has set, and
\* every attempted Source is counted once: it was read and has no entry in
\* failed, or it was not and has exactly one; while the tasks run, the two
\* counters add up to the tasks that have ended.
C37_ReaderCountsAddUp ==
    /\ reader.pc = "gather"
          => reader.read_count + Len(reader.failed)
                = Cardinality({i \in reader.to_read : reader.task[i] = "done"})
    /\ reader.pc = "done"
          => LET output == steps[Len(steps)].output IN
             /\ output.attempted = Cardinality(reader.to_read)
             /\ output.attempted = output.read_count + output.failed_count
             /\ output.read_count = Cardinality(ReadByReader)
             /\ ReadByReader \subseteq reader.to_read
             /\ \A i \in reader.to_read :
                   Cardinality(FailedEntries(output, i))
                       = (IF i \in ReadByReader THEN 0 ELSE 1)

\* a call has returned with two URLs read and three failed, the failures
\* recorded in another order than the tasks were started in
C37_Witness ==
    /\ reader.pc = "done"
    /\ steps[Len(steps)].output.read_count = 2
    /\ steps[Len(steps)].output.failed_count = 3
    /\ steps[Len(steps)].output.failed[1].url > steps[Len(steps)].output.failed[2].url

\* C38: a stage entry point called directly that has raised NotFound or
\* InvalidState has left the store as it was: the steps, the Sources and the
\* events are those from before the call, and so are the status and the
\* error_message of the run (the run is not marked failed).
C38_RejectedStageCallWritesNothing ==
    (call.pc = "idle" /\ last.op \in StageOps
        /\ last.result \in {"NotFound", "InvalidState"})
        => /\ steps = pre.steps
           /\ sources = pre.sources
           /\ events = pre.events
           /\ run = pre.run

\* the dummy synthesizer has refused a running run that has Sources and no
\* reader step
C38_Witness ==
    /\ call.pc = "idle"
    /\ last.op = "run_dummy_synthesis"
    /\ last.result = "InvalidState"
    /\ run.status = RUNNING
    /\ sources # <<>>
    /\ Len(steps) = 2

\* C39: execute called for a run that does not exist has raised NotFound
\* with nothing written: there is no event, no step and still no run; an
\* execute that has got past its first lines was called for a run that exists.
C39_ExecuteOnMissingRun ==
    /\ (call.pc = "idle" /\ last.op = "execute" /\ ~pre.run.exists)
          => /\ last.result = "NotFound"
             /\ ~run.exists
             /\ run = pre.run
             /\ events = <<>>
             /\ steps = <<>>
             /\ sources = <<>>
    /\ (call.pc = "idle" /\ last.op = "execute" /\ last.result = "NotFound")
          => ~pre.run.exists
    /\ call.pc # "idle" => pre.run.exists

C39_Witness ==
    /\ call.pc = "idle"
    /\ last.op = "execute"
    /\ last.result = "NotFound"
    /\ last.message = "Research run not found"
    /\ ~run.exists
    /\ events = <<>>

====
